---- MODULE Spec2Model ----
(***************************************************************************)
(* State-machine model of js/src/secondary_bindings.ts (bonfida-bot):      *)
(* the pool state readers, the settlement orchestrator, the single-token   *)
(* deposit workflow, the pool-seed scan and the order-history              *)
(* reconstruction.  Account data is modelled as byte sequences and decoded *)
(* at the byte offsets the source uses.                                    *)
(***************************************************************************)
EXTENDS Integers, Sequences, FiniteSets, TLC

VARIABLES
  chain,    \* the external world: accounts, balances, venue, history
  input,    \* the arguments of the call being made
  pc,       \* position of the call
  local,    \* the local variables of the running call
  outcome,  \* what the call returned or threw
  log       \* the external requests the call has issued, in order

vars == <<chain, input, pc, local, outcome, log>>

(***************************************************************************)
(* Bounds of the model.                                                    *)
(***************************************************************************)
MaxMarkets == 2
MaxAssets == 2
MaxOpenOrders == 2

(***************************************************************************)
(* Generic helpers: optional values, byte buffers, results.                *)
(***************************************************************************)
None == <<>>
Some(v) == <<v>>

Min(a, b) == IF a < b THEN a ELSE b

\* Buffer.slice(start, end) for 0 <= start, 0 <= end: clamps to the length
Slice(buf, start, end) == SubSeq(buf, start + 1, Min(end, Len(buf)))

\* Buffer.slice(start)
SliceFrom(buf, start) == SubSeq(buf, start + 1, Len(buf))

RECURSIVE Flat(_)
\* Array.prototype.flat() of an array of arrays
Flat(ss) == IF ss = <<>> THEN <<>> ELSE Head(ss) \o Flat(Tail(ss))

RECURSIVE LEValue(_)
\* little-endian value of a byte sequence
LEValue(bytes) ==
  IF bytes = <<>> THEN 0 ELSE Head(bytes) + 256 * LEValue(Tail(bytes))

RECURSIVE LEBytes(_, _)
\* little-endian encoding of v on n bytes
LEBytes(v, n) == IF n = 0 THEN <<>> ELSE <<v % 256>> \o LEBytes(v \div 256, n - 1)

Ok(v) == [ok |-> TRUE, value |-> Some(v)]
Fail == [ok |-> FALSE, value |-> None]

Returned(v, rpc) == [status |-> "ok", value |-> Some(v), error |-> "", rpc |-> rpc]
Thrown(e, rpc) == [status |-> "error", value |-> None, error |-> e, rpc |-> rpc]
Pending == [status |-> "pending", value |-> None, error |-> ""]

(***************************************************************************)
(* Keys and addresses.                                                     *)
(***************************************************************************)
PUBKEY_LENGTH == 32

\* a 32-byte public key with identity k
Key(k) == [i \in 1..PUBKEY_LENGTH |-> IF i = 1 THEN k ELSE 0]

BONFIDABOT_PROGRAM_ID == Key(200)
SERUM_PROGRAM_ID == Key(201)

array_one == <<1>>

\* PublicKey.createProgramAddress(seeds, programId): a collision-free hash of
\* the seeds and the program identity
createProgramAddress(seeds, programId) == <<1>> \o programId \o Flat(seeds)

\* findAssociatedTokenAddress(owner, mint)
findAssociatedTokenAddress(owner, mint) == <<2>> \o owner \o mint

(***************************************************************************)
(* On-chain layouts (state.ts, utils.ts).                                  *)
(***************************************************************************)
PoolHeaderLEN == 109
PoolAssetLEN == 40

Numberu16_fromBuffer(buf) == IF Len(buf) = 2 THEN Ok(LEValue(buf)) ELSE Fail
Numberu64_fromBuffer(buf) == IF Len(buf) = 8 THEN Ok(LEValue(buf)) ELSE Fail

\* PoolHeader.fromBuffer
PoolHeader_fromBuffer(buf) ==
  IF Len(buf) < PoolHeaderLEN THEN Fail
  ELSE Ok([serumProgramId |-> Slice(buf, 0, 32),
           seed |-> Slice(buf, 32, 64),
           signalProvider |-> Slice(buf, 64, 96),
           status |-> buf[97],
           feeRatio |-> LEValue(Slice(buf, 97, 99)),
           feeCollectionPeriod |-> LEValue(Slice(buf, 99, 107)),
           numberOfMarkets |-> LEValue(Slice(buf, 107, 109))])

RECURSIVE unpack_markets_from(_, _)
unpack_markets_from(buf, n) ==
  IF n = 0 THEN <<>>
  ELSE <<Slice(buf, 0, PUBKEY_LENGTH)>>
         \o unpack_markets_from(SliceFrom(buf, PUBKEY_LENGTH), n - 1)

\* unpack_markets(input, numberOfMarkets)
unpack_markets(buf, numberOfMarkets) ==
  IF Len(buf) < numberOfMarkets * PUBKEY_LENGTH THEN Fail
  ELSE Ok(unpack_markets_from(buf, numberOfMarkets))

RECURSIVE unpack_assets_from(_)
unpack_assets_from(buf) ==
  IF buf = <<>> THEN <<>>
  ELSE <<[mintAddress |-> Slice(buf, 0, PUBKEY_LENGTH),
          amountInToken |-> LEValue(Slice(buf, PUBKEY_LENGTH, PoolAssetLEN))]>>
         \o unpack_assets_from(SliceFrom(buf, PoolAssetLEN))

\* unpack_assets(input): the records that fill the rest of the account
unpack_assets(buf) ==
  IF Len(buf) % PoolAssetLEN # 0 THEN Fail ELSE Ok(unpack_assets_from(buf))

\* the bytes of a pool account with the given header fields and lists
PackHeader(h) ==
  h.serumProgramId \o h.seed \o h.signalProvider \o <<h.status>>
    \o LEBytes(h.feeRatio, 2) \o LEBytes(h.feeCollectionPeriod, 8)
    \o LEBytes(h.numberOfMarkets, 2)

PackAsset(a) == a.mintAddress \o LEBytes(a.amountInToken, 8)

PackPool(h, markets, assets) ==
  PackHeader(h) \o Flat(markets) \o Flat([i \in DOMAIN assets |-> PackAsset(assets[i])])

(***************************************************************************)
(* The chain connection and the venue client, as seen by the readers.      *)
(***************************************************************************)
\* connection.getAccountInfo(address): the account's data, or null
getAccountInfo(c, address) ==
  IF \E a \in c.accounts : a.address = address
  THEN Some((CHOOSE a \in c.accounts : a.address = address).data)
  ELSE None

\* connection.getTokenAccountBalance(address).value, or a failed query
getTokenAccountBalance(c, address) ==
  IF \E b \in c.balances : b.address = address
  THEN Some(CHOOSE b \in c.balances : b.address = address)
  ELSE None

\* connection.getTokenSupply(mint).value, or a failed query
getTokenSupply(c, mint) ==
  IF \E b \in c.supplies : b.address = mint
  THEN Some(CHOOSE b \in c.supplies : b.address = mint)
  ELSE None

\* market.findOpenOrdersAccountsForOwner(connection, owner)
findOpenOrdersAccountsForOwner(c, market, owner) ==
  IF \E o \in c.openOrders : o.market = market /\ o.owner = owner
  THEN (CHOOSE o \in c.openOrders : o.market = market /\ o.owner = owner).accounts
  ELSE <<>>

Rpc(call, address) == [call |-> call, address |-> address]

\* settleFunds(connection, poolSeed, market, openOrders, null)[0] of main.ts
settleFunds(poolSeed, market, openOrder) ==
  <<[instruction |-> "settleFunds", poolSeed |-> poolSeed, market |-> market,
     openOrders |-> openOrder]>>

\* mutant: the header is decoded from a zero-filled copy of PoolHeader.LEN bytes
decodeHeader_padded(data) ==
  PoolHeader_fromBuffer(
    Slice(data \o [i \in 1..PoolHeaderLEN |-> 0], 0, PoolHeaderLEN))

\* PoolHeader.fromBuffer(poolData.data.slice(0, PoolHeader.LEN))
decodeHeader(data) == PoolHeader_fromBuffer(Slice(data, 0, PoolHeaderLEN))

(***************************************************************************)
(* settlePool                                                              *)
(***************************************************************************)
\* mutant: only the first open orders account of a market is settled
settleOpenOrders_firstOnly(poolSeed, authorizedMarket, openOrdersAccounts) ==
  IF openOrdersAccounts = <<>> THEN <<>>
  ELSE <<settleFunds(poolSeed, authorizedMarket, Head(openOrdersAccounts))[1]>>

RECURSIVE settleOpenOrders(_, _, _)
\* the inner loop of settlePool: one instruction per open orders account
settleOpenOrders(poolSeed, authorizedMarket, openOrdersAccounts) ==
  IF openOrdersAccounts = <<>> THEN <<>>
  ELSE <<settleFunds(poolSeed, authorizedMarket, Head(openOrdersAccounts))[1]>>
         \o settleOpenOrders(poolSeed, authorizedMarket, Tail(openOrdersAccounts))

RECURSIVE settleMarkets(_, _, _, _, _, _)
\* the outer loop of settlePool over the authorized markets
settleMarkets(c, poolSeed, poolKey, authorizedMarkets, instructions, rpc) ==
  IF authorizedMarkets = <<>> THEN Returned(instructions, rpc)
  ELSE
    LET authorizedMarket == Head(authorizedMarkets)
        rpcLoad == Append(rpc, Rpc("Market.load", authorizedMarket))
    IN IF authorizedMarket \notin c.markets
       THEN Thrown("Market.load failed", rpcLoad)
       ELSE
         LET openOrdersAccounts ==
               findOpenOrdersAccountsForOwner(c, authorizedMarket, poolKey)
             rpcFind == Append(rpcLoad,
                          Rpc("findOpenOrdersAccountsForOwner", authorizedMarket))
         IN settleMarkets(c, poolSeed, poolKey, Tail(authorizedMarkets),
              instructions
                \o settleOpenOrders(poolSeed, authorizedMarket, openOrdersAccounts),
              rpcFind)

\* the market list of settlePool: the numberOfMarkets keys after the header
settlePoolMarkets(data, poolHeader) ==
  unpack_markets(
    Slice(data, PoolHeaderLEN,
          PoolHeaderLEN + poolHeader.numberOfMarkets * PUBKEY_LENGTH),
    poolHeader.numberOfMarkets)

settlePool(c, poolSeed) ==
  LET poolKey == createProgramAddress(<<poolSeed>>, BONFIDABOT_PROGRAM_ID)
      poolData == getAccountInfo(c, poolKey)
      rpc == <<Rpc("getAccountInfo", poolKey)>>
  IN IF poolData = None THEN Thrown("Pool account is unavailable", rpc)
     ELSE
       LET data == poolData[1]
           poolHeader == decodeHeader(data)
       IN IF ~poolHeader.ok THEN Thrown("DecodingError", rpc)
          ELSE
            LET authorizedMarkets == settlePoolMarkets(data, poolHeader.value[1])
            IN IF ~authorizedMarkets.ok THEN Thrown("DecodingError", rpc)
               ELSE settleMarkets(c, poolSeed, poolKey,
                                  authorizedMarkets.value[1], <<>>, rpc)

(***************************************************************************)
(* fetchPoolInfo                                                           *)
(***************************************************************************)
\* where the asset records begin: after the header and the market list
assetsOffset(poolHeader) ==
  PoolHeaderLEN + poolHeader.numberOfMarkets * PUBKEY_LENGTH

\* mutant: the mints are collected in reverse
mapMintAddress_reversed(poolAssets) ==
  [i \in DOMAIN poolAssets |-> poolAssets[Len(poolAssets) + 1 - i].mintAddress]

\* poolAssets.map(asset => asset.mintAddress)
mapMintAddress(poolAssets) ==
  [i \in DOMAIN poolAssets |-> poolAssets[i].mintAddress]

\* the decoding half of fetchPoolInfo
composePoolInfo(poolKey, poolMintKey, data, rpc) ==
  LET poolHeader == decodeHeader(data)
  IN IF ~poolHeader.ok THEN Thrown("DecodingError", rpc)
     ELSE
       LET h == poolHeader.value[1]
           poolAssets == unpack_assets(SliceFrom(data, assetsOffset(h)))
           authorizedMarkets ==
             unpack_markets(Slice(data, PoolHeaderLEN, assetsOffset(h)),
                            h.numberOfMarkets)
       IN IF ~poolAssets.ok \/ ~authorizedMarkets.ok
          THEN Thrown("DecodingError", rpc)
          ELSE Returned(
                 [address |-> poolKey,
                  serumProgramId |-> h.serumProgramId,
                  seed |-> h.seed,
                  signalProvider |-> h.signalProvider,
                  status |-> h.status,
                  feeRatio |-> h.feeRatio,
                  feePeriod |-> h.feeCollectionPeriod,
                  mintKey |-> poolMintKey,
                  assetMintkeys |-> mapMintAddress(poolAssets.value[1]),
                  authorizedMarkets |-> authorizedMarkets.value[1]],
                 rpc)

\* mutant: the fetched account is not checked for null
fetchPoolInfo_unchecked(c, poolSeed) ==
  LET poolKey == createProgramAddress(<<poolSeed>>, BONFIDABOT_PROGRAM_ID)
      poolMintKey ==
        createProgramAddress(<<poolSeed, array_one>>, BONFIDABOT_PROGRAM_ID)
      poolData == getAccountInfo(c, poolKey)
      rpc == <<Rpc("getAccountInfo", poolKey)>>
  IN composePoolInfo(poolKey, poolMintKey,
                     IF poolData = None THEN <<>> ELSE poolData[1], rpc)

fetchPoolInfo(c, poolSeed) ==
  LET poolKey == createProgramAddress(<<poolSeed>>, BONFIDABOT_PROGRAM_ID)
      poolMintKey ==
        createProgramAddress(<<poolSeed, array_one>>, BONFIDABOT_PROGRAM_ID)
      poolData == getAccountInfo(c, poolKey)
      rpc == <<Rpc("getAccountInfo", poolKey)>>
  IN IF poolData = None THEN Thrown("Pool account is unavailable", rpc)
     ELSE composePoolInfo(poolKey, poolMintKey, poolData[1], rpc)

(***************************************************************************)
(* fetchPoolBalances                                                       *)
(***************************************************************************)
\* publicKey.toBase58(): the text of a key; an injective encoding, kept as
\* the tagged bytes it encodes
toBase58(key) == [base58 |-> key]

RECURSIVE assetBalancesLoop_partial(_, _, _, _, _, _)
\* mutant: an asset whose balance query fails is left out of the list
assetBalancesLoop_partial(c, poolKey, poolMintKey, poolAssets, assetBalances, rpc) ==
  IF poolAssets = <<>>
  THEN LET poolTokenSupply == getTokenSupply(c, poolMintKey)
           rpcSupply == Append(rpc, Rpc("getTokenSupply", poolMintKey))
       IN IF poolTokenSupply = None
          THEN Thrown("getTokenSupply failed", rpcSupply)
          ELSE Returned(<<poolTokenSupply[1].amount, assetBalances>>, rpcSupply)
  ELSE LET asset == Head(poolAssets)
           assetKey == findAssociatedTokenAddress(poolKey, asset.mintAddress)
           balance == getTokenAccountBalance(c, assetKey)
           rpcBalance == Append(rpc, Rpc("getTokenAccountBalance", assetKey))
       IN assetBalancesLoop_partial(c, poolKey, poolMintKey, Tail(poolAssets),
            IF balance = None THEN assetBalances
            ELSE Append(assetBalances,
                        [tokenAmount |-> balance[1].amount,
                         mint |-> toBase58(asset.mintAddress)]),
            rpcBalance)

RECURSIVE assetBalancesLoop(_, _, _, _, _, _)
\* the loop of fetchPoolBalances over the pool assets, then the supply query
assetBalancesLoop(c, poolKey, poolMintKey, poolAssets, assetBalances, rpc) ==
  IF poolAssets = <<>>
  THEN LET poolTokenSupply == getTokenSupply(c, poolMintKey)
           rpcSupply == Append(rpc, Rpc("getTokenSupply", poolMintKey))
       IN IF poolTokenSupply = None
          THEN Thrown("getTokenSupply failed", rpcSupply)
          ELSE Returned(<<poolTokenSupply[1].amount, assetBalances>>, rpcSupply)
  ELSE LET asset == Head(poolAssets)
           assetKey == findAssociatedTokenAddress(poolKey, asset.mintAddress)
           balance == getTokenAccountBalance(c, assetKey)
           rpcBalance == Append(rpc, Rpc("getTokenAccountBalance", assetKey))
       IN IF balance = None
          THEN Thrown("getTokenAccountBalance failed", rpcBalance)
          ELSE assetBalancesLoop(c, poolKey, poolMintKey, Tail(poolAssets),
                 Append(assetBalances,
                        [tokenAmount |-> balance[1].amount,
                         mint |-> toBase58(asset.mintAddress)]),
                 rpcBalance)

fetchPoolBalances(c, poolSeed) ==
  LET poolKey == createProgramAddress(<<poolSeed>>, BONFIDABOT_PROGRAM_ID)
      poolMintKey ==
        createProgramAddress(<<poolSeed, array_one>>, BONFIDABOT_PROGRAM_ID)
      poolData == getAccountInfo(c, poolKey)
      rpc == <<Rpc("getAccountInfo", poolKey)>>
  IN IF poolData = None THEN Thrown("Pool account is unavailable", rpc)
     ELSE
       LET data == poolData[1]
           poolHeader == decodeHeader(data)
       IN IF ~poolHeader.ok THEN Thrown("DecodingError", rpc)
          ELSE
            LET poolAssets ==
                  unpack_assets(
                    SliceFrom(data, assetsOffset(poolHeader.value[1])))
            IN IF ~poolAssets.ok THEN Thrown("DecodingError", rpc)
               ELSE assetBalancesLoop(c, poolKey, poolMintKey,
                                      poolAssets.value[1], <<>>, rpc)

(***************************************************************************)
(* Specification of the pool readers: one call of fetchPoolInfo,           *)
(* fetchPoolBalances or settlePool on a chain holding at most one pool.    *)
(***************************************************************************)
SeedIds == {1, 2}
MarketIds == {11, 12}
MintIds == {21, 22}
SignalProviderIds == {31, 32}

\* all sequences over S of length at most n
SeqsUpTo(S, n) == UNION {[1..k -> S] : k \in 0..n}

PoolHeaderOf(seedId, sigId, n) ==
  [serumProgramId |-> SERUM_PROGRAM_ID, seed |-> Key(seedId),
   signalProvider |-> Key(sigId), status |-> 1, feeRatio |-> 50,
   feeCollectionPeriod |-> 86400, numberOfMarkets |-> n]

\* the account bytes of a pool with these market and mint identities
PoolBytes(seedId, sigId, marketIds, mintIds) ==
  PackPool(PoolHeaderOf(seedId, sigId, Len(marketIds)),
           [i \in DOMAIN marketIds |-> Key(marketIds[i])],
           [i \in DOMAIN mintIds |->
              [mintAddress |-> Key(mintIds[i]), amountInToken |-> 1000 * i]])

\* the lengths at which an account's data may end: whole, or cut inside the
\* header, the market list or the last asset record
CutLengths(nMarkets, full) ==
  {0, PoolHeaderLEN - 1, full - 1, full}
    \cup {PoolHeaderLEN + nMarkets * PUBKEY_LENGTH - 1}

PoolAccountDatas ==
  {SubSeq(PoolBytes(1, 31, ms, as), 1, cut) :
     <<ms, as, cut>> \in
       {<<m, a, c>> \in SeqsUpTo(MarketIds, MaxMarkets)
                          \X SeqsUpTo(MintIds, MaxAssets)
                          \X (0..(PoolHeaderLEN + MaxMarkets * PUBKEY_LENGTH
                                  + MaxAssets * PoolAssetLEN)) :
          c \in CutLengths(Len(m),
                  PoolHeaderLEN + Len(m) * PUBKEY_LENGTH + Len(a) * PoolAssetLEN)}}

PoolKeyOf(seedId) == createProgramAddress(<<Key(seedId)>>, BONFIDABOT_PROGRAM_ID)
PoolMintOf(seedId) ==
  createProgramAddress(<<Key(seedId), array_one>>, BONFIDABOT_PROGRAM_ID)

\* the open orders accounts the venue lists for the pool of seed 1: n[m] of
\* them on market m
OpenOrdersOf(n) ==
  {[market |-> Key(m), owner |-> PoolKeyOf(1),
    accounts |-> [j \in 1..n[m] |-> Key(100 + 10 * (m - 10) - j)]] : m \in MarketIds}

InitPool ==
  /\ \E present \in BOOLEAN, data \in PoolAccountDatas, seedId \in SeedIds :
       /\ seedId = 2 => Len(data) >= PoolHeaderLEN
       /\ ~present => data = PoolBytes(1, 31, <<>>, <<>>) /\ seedId = 1
       /\ chain = [accounts |-> IF present
                                THEN {[address |-> PoolKeyOf(1), data |-> data]}
                                ELSE {},
                   markets |-> {}, openOrders |-> {}, balances |-> {},
                   supplies |-> {}]
       /\ input = [poolSeed |-> Key(seedId)]
  /\ pc = "idle"
  /\ local = [op |-> "none"]
  /\ outcome = Pending
  /\ log = <<>>

\* the call ends: its result or error, and the requests it issued
Finish(op, r) ==
  /\ pc' = "done"
  /\ local' = [op |-> op]
  /\ outcome' = [status |-> r.status, value |-> r.value, error |-> r.error]
  /\ log' = r.rpc
  /\ UNCHANGED input

CallFetchPoolInfo ==
  /\ pc = "idle"
  /\ Finish("fetchPoolInfo", fetchPoolInfo(chain, input.poolSeed))
  /\ UNCHANGED chain

CallFetchPoolBalances ==
  /\ pc = "idle"
  /\ \E held \in SUBSET MintIds, minted \in BOOLEAN :
       /\ chain' = [chain EXCEPT
            !.balances =
              {[address |-> findAssociatedTokenAddress(PoolKeyOf(1), Key(m)),
                amount |-> 7 * m] : m \in held},
            !.supplies = IF minted
                         THEN {[address |-> PoolMintOf(1), amount |-> 5000]}
                         ELSE {}]
       /\ Finish("fetchPoolBalances", fetchPoolBalances(chain', input.poolSeed))

CallSettlePool ==
  /\ pc = "idle"
  /\ \E n \in [MarketIds -> 0..MaxOpenOrders], loadable \in SUBSET MarketIds :
       /\ chain' = [chain EXCEPT !.openOrders = OpenOrdersOf(n),
                                 !.markets = {Key(m) : m \in loadable}]
       /\ Finish("settlePool", settlePool(chain', input.poolSeed))

NextPool == CallFetchPoolInfo \/ CallFetchPoolBalances \/ CallSettlePool

SpecPool == InitPool /\ [][NextPool]_vars

(***************************************************************************)
(* Properties of the pool readers.                                         *)
(***************************************************************************)
\* the address a call with this seed must read: derived from the seed and
\* the program identity alone
CalledPoolAddress == <<1>> \o BONFIDABOT_PROGRAM_ID \o input.poolSeed

PoolAccountExists == \E a \in chain.accounts : a.address = CalledPoolAddress

\* the raw bytes of the pool account the call reads
CalledPoolData == (CHOOSE a \in chain.accounts : a.address = CalledPoolAddress).data

\* C2: when no account exists at the address derived from the seed,
\* fetchPoolInfo, fetchPoolBalances and settlePool each fail with the
\* pool-unavailable error, return nothing, and the failed account fetch is the
\* only request they issue.
C2_PoolUnavailable ==
  (pc = "done" /\ ~PoolAccountExists) =>
     /\ outcome.status = "error"
     /\ outcome.error = "Pool account is unavailable"
     /\ outcome.value = None
     /\ log = <<[call |-> "getAccountInfo", address |-> CalledPoolAddress]>>

\* C2 witness: settlePool was called with the seed of a pool that does not
\* exist while another pool does
C2_Witness ==
  /\ pc = "done" /\ local.op = "settlePool"
  /\ ~PoolAccountExists /\ chain.accounts # {}
  /\ outcome.status = "error"

\* C3: when the pool account's data is shorter than the header, every reader
\* fails with a decoding error and returns nothing.
C3_ShortHeaderFails ==
  (pc = "done" /\ PoolAccountExists /\ Len(CalledPoolData) < PoolHeaderLEN) =>
     /\ outcome.status = "error"
     /\ outcome.error = "DecodingError"
     /\ outcome.value = None

\* C3 witness: fetchPoolInfo read an account one byte short of a header
C3_Witness ==
  /\ pc = "done" /\ local.op = "fetchPoolInfo"
  /\ PoolAccountExists /\ Len(CalledPoolData) = PoolHeaderLEN - 1
  /\ outcome.error = "DecodingError"

\* the market count stored in the last two header bytes of the raw account
RawMarketCount ==
  CalledPoolData[PoolHeaderLEN - 1] + 256 * CalledPoolData[PoolHeaderLEN]

\* byte j of the record of the given size that starts at offset base, 1-based
RawByte(base, size, i, j) == CalledPoolData[base + size * (i - 1) + j]

\* C4: fetchPoolInfo returns as authorizedMarkets the N 32-byte records that
\* follow the header, and as assetMintkeys the first 32 bytes of each asset
\* record from offset header length + 32 N on, both in byte order and with
\* matching lengths.
C4_ListsInByteOrder ==
  (pc = "done" /\ local.op = "fetchPoolInfo" /\ outcome.status = "ok") =>
     LET info == outcome.value[1]
         assetsAt == PoolHeaderLEN + RawMarketCount * PUBKEY_LENGTH
     IN /\ Len(info.authorizedMarkets) = RawMarketCount
        /\ \A i \in 1..RawMarketCount : \A j \in 1..PUBKEY_LENGTH :
             info.authorizedMarkets[i][j]
               = RawByte(PoolHeaderLEN, PUBKEY_LENGTH, i, j)
        /\ Len(info.assetMintkeys) * PoolAssetLEN
             = Len(CalledPoolData) - assetsAt
        /\ \A i \in 1..Len(info.assetMintkeys) : \A j \in 1..PUBKEY_LENGTH :
             info.assetMintkeys[i][j] = RawByte(assetsAt, PoolAssetLEN, i, j)

\* C4 witness: a pool of two markets and two different assets was read
C4_Witness ==
  /\ pc = "done" /\ local.op = "fetchPoolInfo" /\ outcome.status = "ok"
  /\ Len(outcome.value[1].authorizedMarkets) = 2
  /\ Len(outcome.value[1].assetMintkeys) = 2
  /\ outcome.value[1].assetMintkeys[1] # outcome.value[1].assetMintkeys[2]
  /\ outcome.value[1].authorizedMarkets[1] = Key(12)

\* the i-th market key in the raw account
RawMarket(i) ==
  SubSeq(CalledPoolData, PoolHeaderLEN + PUBKEY_LENGTH * (i - 1) + 1,
         PoolHeaderLEN + PUBKEY_LENGTH * i)

\* the open orders accounts the venue lists for the pool on a market
ListedOpenOrders(market) ==
  IF \E o \in chain.openOrders : o.market = market /\ o.owner = CalledPoolAddress
  THEN (CHOOSE o \in chain.openOrders :
          o.market = market /\ o.owner = CalledPoolAddress).accounts
  ELSE <<>>

RECURSIVE OpenOrdersBefore(_)
\* how many (market, open orders account) pairs precede market i
OpenOrdersBefore(i) ==
  IF i = 1 THEN 0
  ELSE OpenOrdersBefore(i - 1) + Len(ListedOpenOrders(RawMarket(i - 1)))

\* C5: settlePool returns exactly one settlement instruction per (authorized
\* market, open orders account of the pool) pair, market-major in raw market
\* order and in listing order within a market, and submits no transaction.
C5_OneSettlePerOpenOrder ==
  (pc = "done" /\ local.op = "settlePool" /\ outcome.status = "ok") =>
     LET instructions == outcome.value[1]
     IN /\ Len(instructions) = OpenOrdersBefore(RawMarketCount + 1)
        /\ \A i \in 1..RawMarketCount :
             \A j \in 1..Len(ListedOpenOrders(RawMarket(i))) :
               LET ix == instructions[OpenOrdersBefore(i) + j]
               IN /\ ix.instruction = "settleFunds"
                  /\ ix.market = RawMarket(i)
                  /\ ix.openOrders = ListedOpenOrders(RawMarket(i))[j]
                  /\ ix.poolSeed = input.poolSeed
        /\ \A k \in DOMAIN log : log[k].call # "sendTransaction"

\* C5 witness: two different markets, the second listed first in the
\* account, with three open orders accounts between them
C5_Witness ==
  /\ pc = "done" /\ local.op = "settlePool" /\ outcome.status = "ok"
  /\ RawMarketCount = 2 /\ RawMarket(1) = Key(12) /\ RawMarket(2) = Key(11)
  /\ Len(ListedOpenOrders(Key(12))) = 1 /\ Len(ListedOpenOrders(Key(11))) = 2
  /\ Len(outcome.value[1]) = 3

(***************************************************************************)
(* getPoolsSeedsBySigProvider                                              *)
(***************************************************************************)
\* the base64 text of the RPC response: sextets, with 64 for the '=' padding
RECURSIVE Base64Encode(_)
Base64Encode(bytes) ==
  IF bytes = <<>> THEN <<>>
  ELSE LET b1 == bytes[1]
           b2 == IF Len(bytes) >= 2 THEN bytes[2] ELSE 0
           b3 == IF Len(bytes) >= 3 THEN bytes[3] ELSE 0
       IN <<b1 \div 4,
            (b1 % 4) * 16 + b2 \div 16,
            IF Len(bytes) >= 2 THEN (b2 % 16) * 4 + b3 \div 64 ELSE 64,
            IF Len(bytes) >= 3 THEN b3 % 64 ELSE 64>>
            \o Base64Encode(SubSeq(bytes, 4, Len(bytes)))

\* Buffer.from(text, 'base64')
RECURSIVE Base64Decode(_)
Base64Decode(text) ==
  IF Len(text) < 4 THEN <<>>
  ELSE LET s1 == text[1]
           s2 == text[2]
           s3 == text[3]
           s4 == text[4]
           b1 == s1 * 4 + s2 \div 16
           b2 == (s2 % 16) * 16 + (s3 % 64) \div 4
           b3 == (s3 % 4) * 64 + (s4 % 64)
       IN (IF s3 = 64 THEN <<b1>>
           ELSE IF s4 = 64 THEN <<b1, b2>>
           ELSE <<b1, b2, b3>>)
            \o Base64Decode(SubSeq(text, 5, Len(text)))

\* new PublicKey(bytes) of a 32-byte buffer
PublicKey(bytes) == bytes

\* mutant: the key is compared with the seed field
matchesSigProvider_seedField(data, signalProviderKey) ==
  \/ signalProviderKey = None
  \/ PublicKey(Slice(data, 32, 64)) = signalProviderKey[1]

\* !signalProviderKey || new PublicKey(data.slice(64, 96)).equals(signalProviderKey)
matchesSigProvider(data, signalProviderKey) ==
  \/ signalProviderKey = None
  \/ PublicKey(Slice(data, 64, 96)) = signalProviderKey[1]

RECURSIVE poolSeedsLoop(_, _, _)
\* the loop of getPoolsSeedsBySigProvider over the accounts of the response
poolSeedsLoop(result, signalProviderKey, poolSeeds) ==
  IF result = <<>> THEN poolSeeds
  ELSE LET data == Base64Decode(Head(result).account.data[1])
       IN IF Len(data) < PoolHeaderLEN
          THEN poolSeedsLoop(Tail(result), signalProviderKey, poolSeeds)
          ELSE IF matchesSigProvider(data, signalProviderKey)
          THEN poolSeedsLoop(Tail(result), signalProviderKey,
                             Append(poolSeeds, Slice(data, 32, 64)))
          ELSE poolSeedsLoop(Tail(result), signalProviderKey, poolSeeds)

\* connection._rpcRequest('getProgramAccounts', [programId, ...])
getProgramAccounts(c, programId) ==
  IF c.rpcError
  THEN [error |-> Some([message |-> "rpc failure"]), result |-> <<>>]
  ELSE [error |-> None,
        result |-> [i \in DOMAIN c.programAccounts |->
                      [account |->
                         [data |-> <<Base64Encode(c.programAccounts[i]), "base64">>]]]]

getPoolsSeedsBySigProvider(c, signalProviderKey) ==
  LET resp == getProgramAccounts(c, BONFIDABOT_PROGRAM_ID)
      rpc == <<Rpc("getProgramAccounts", BONFIDABOT_PROGRAM_ID)>>
  IN IF resp.error # None THEN Thrown(resp.error[1].message, rpc)
     ELSE Returned(poolSeedsLoop(resp.result, signalProviderKey, <<>>), rpc)

(***************************************************************************)
(* Specification of the pool-seed scan: one call of                        *)
(* getPoolsSeedsBySigProvider over the accounts the program owns.          *)
(***************************************************************************)
MaxProgramAccounts == 3

\* accounts the program may own: whole pools, and data shorter than a header
ProgramAccountDatas ==
  {PoolBytes(1, 31, <<>>, <<>>),
   PoolBytes(2, 32, <<11>>, <<21>>),
   PoolBytes(31, 32, <<>>, <<22>>),
   SubSeq(PoolBytes(1, 31, <<>>, <<>>), 1, PoolHeaderLEN - 1),
   SubSeq(PoolBytes(2, 31, <<>>, <<>>), 1, 70)}

InitSeeds ==
  /\ \E accounts \in SeqsUpTo(ProgramAccountDatas, MaxProgramAccounts),
        rpcError \in BOOLEAN :
       chain = [programAccounts |-> accounts, rpcError |-> rpcError]
  /\ \E key \in {None} \cup {Some(Key(k)) : k \in SignalProviderIds \cup {2}} :
       input = [signalProviderKey |-> key]
  /\ pc = "idle"
  /\ local = [op |-> "none"]
  /\ outcome = Pending
  /\ log = <<>>

CallGetPoolsSeedsBySigProvider ==
  /\ pc = "idle"
  /\ Finish("getPoolsSeedsBySigProvider",
            getPoolsSeedsBySigProvider(chain, input.signalProviderKey))
  /\ UNCHANGED chain

NextSeeds == CallGetPoolsSeedsBySigProvider

SpecSeeds == InitSeeds /\ [][NextSeeds]_vars

\* the positions of the program accounts that are at least a header long and,
\* when a key is given, carry it in bytes 64-96
PoolPositions ==
  {i \in DOMAIN chain.programAccounts :
     /\ Len(chain.programAccounts[i]) >= PoolHeaderLEN
     /\ \/ input.signalProviderKey = None
        \/ \A j \in 1..PUBKEY_LENGTH :
             chain.programAccounts[i][64 + j] = input.signalProviderKey[1][j]}

\* C8: getPoolsSeedsBySigProvider returns bytes 32-64 of exactly the program
\* accounts that are at least a header long and (when a key is given) whose
\* bytes 64-96 equal the key, in account order; shorter accounts are left
\* out and make no call fail.
C8_SeedsOfMatchingPools ==
  (pc = "done" /\ ~chain.rpcError) =>
     /\ outcome.status = "ok"
     /\ Len(outcome.value[1]) = Cardinality(PoolPositions)
     /\ \A i \in PoolPositions :
          outcome.value[1][Cardinality({k \in PoolPositions : k <= i})]
            = SubSeq(chain.programAccounts[i], 33, 64)

\* C8 witness: with a key given, a short account, a pool of another signal
\* provider and a pool of the given one were scanned, and one seed returned
C8_Witness ==
  /\ pc = "done" /\ input.signalProviderKey = Some(Key(32))
  /\ Len(chain.programAccounts) = 3
  /\ Len(chain.programAccounts[1]) < PoolHeaderLEN
  /\ chain.programAccounts[2] = PoolBytes(1, 31, <<>>, <<>>)
  /\ outcome.status = "ok" /\ outcome.value[1] = <<Key(2)>>

(***************************************************************************)
(* parseCreateOrderInstruction                                             *)
(***************************************************************************)
\* array[index] of JavaScript: undefined outside the array
Lookup(array, index) ==
  IF index + 1 \in DOMAIN array THEN array[index + 1] ELSE "undefined"

\* data[offset] of a Buffer: undefined past the end
ByteAt(data, offset) == IF offset < Len(data) THEN data[offset + 1] ELSE -1

\* [OrderSide.Bid, OrderSide.Ask][data[33]]
decodeSide(data) == Lookup(<<"Bid", "Ask">>, ByteAt(data, 33))

\* [OrderType.Limit, OrderType.ImmediateOrCancel, OrderType.PostOnly][data[44]]
decodeOrderType(data) ==
  Lookup(<<"Limit", "ImmediateOrCancel", "PostOnly">>, ByteAt(data, 44))

\* [DecrementTake, CancelProvide, AbortTransaction][data[53]]
decodeSelfTradeBehavior(data) ==
  Lookup(<<"DecrementTake", "CancelProvide", "AbortTransaction">>,
         ByteAt(data, 53))

parseCreateOrderInstruction(data, poolInfo, sig) ==
  LET limitPrice == Numberu64_fromBuffer(Slice(data, 34, 42))
      ratioOfPoolAssetsToTrade == Numberu16_fromBuffer(Slice(data, 42, 44))
      clientOrderId == Numberu64_fromBuffer(Slice(data, 45, 53))
      marketIndex == Numberu16_fromBuffer(Slice(data, 70, 72))
  IN IF ~limitPrice.ok \/ ~ratioOfPoolAssetsToTrade.ok \/ ~clientOrderId.ok
        \/ ~marketIndex.ok
     THEN Fail
     ELSE Ok([poolSeed |-> Slice(data, 1, 33),
              side |-> decodeSide(data),
              limitPrice |-> limitPrice.value[1],
              ratioOfPoolAssetsToTrade |-> ratioOfPoolAssetsToTrade.value[1],
              orderType |-> decodeOrderType(data),
              clientOrderId |-> clientOrderId.value[1],
              selfTradeBehavior |-> decodeSelfTradeBehavior(data),
              market |-> IF marketIndex.value[1] + 1
                              \in DOMAIN poolInfo.authorizedMarkets
                         THEN Some(poolInfo.authorizedMarkets[
                                     marketIndex.value[1] + 1])
                         ELSE None,
              transactionSignature |-> sig.signature,
              transactionSlot |-> sig.slot])

\* the bytes of an order-creation instruction: opcode, pool seed, side, limit
\* price, ratio, order type, client order id, self-trade behaviour, sixteen
\* further bytes, market index
PackCreateOrder(opcode, o) ==
  <<opcode>> \o o.poolSeed \o <<o.side>> \o LEBytes(o.limitPrice, 8)
    \o LEBytes(o.ratio, 2) \o <<o.orderType>> \o LEBytes(o.clientOrderId, 8)
    \o <<o.selfTrade>> \o [i \in 1..16 |-> 0] \o LEBytes(o.marketIndex, 2)

(***************************************************************************)
(* Specification of the instruction decoder: parseCreateOrderInstruction   *)
(* applied to one instruction payload.                                     *)
(***************************************************************************)
MaxEnumByte == 3

CreateOrderLEN == 72

ThePoolInfo ==
  [address |-> PoolKeyOf(1), authorizedMarkets |-> <<Key(11), Key(12)>>]

InitParse ==
  /\ \E side \in 0..MaxEnumByte, orderType \in 0..MaxEnumByte,
        selfTrade \in 0..MaxEnumByte, marketIndex \in 0..MaxMarkets,
        len \in {CreateOrderLEN, CreateOrderLEN - 1, 50} :
       input = [data |->
                  SubSeq(PackCreateOrder(3,
                           [poolSeed |-> Key(1), side |-> side,
                            limitPrice |-> 1500, ratio |-> 300,
                            orderType |-> orderType, clientOrderId |-> 77,
                            selfTrade |-> selfTrade,
                            marketIndex |-> marketIndex]), 1, len),
                poolInfo |-> ThePoolInfo,
                sig |-> [signature |-> 501, slot |-> 9]]
  /\ chain = [accounts |-> {}]
  /\ pc = "idle"
  /\ local = [op |-> "none"]
  /\ outcome = Pending
  /\ log = <<>>

CallParseCreateOrderInstruction ==
  /\ pc = "idle"
  /\ LET r == parseCreateOrderInstruction(input.data, input.poolInfo, input.sig)
     IN Finish("parseCreateOrderInstruction",
               IF r.ok THEN Returned(r.value[1], <<>>)
               ELSE Thrown("DecodingError", <<>>))
  /\ UNCHANGED chain

NextParse == CallParseCreateOrderInstruction

SpecParse == InitParse /\ [][NextParse]_vars

\* C9: parseCreateOrderInstruction fails with a decoding error whenever the
\* side byte (offset 33) is not 0 or 1, the order-type byte (offset 44) is not
\* 0, 1 or 2, or the self-trade byte (offset 53) is not 0, 1 or 2.
C9_OutOfRangeEnumFails ==
  (/\ pc = "done"
   /\ Len(input.data) = CreateOrderLEN
   /\ \/ input.data[34] \notin {0, 1}
      \/ input.data[45] \notin {0, 1, 2}
      \/ input.data[54] \notin {0, 1, 2}) =>
     /\ outcome.status = "error"
     /\ outcome.error = "DecodingError"

(***************************************************************************)
(* getPoolOrdersInfosFromSignature and getPoolOrderInfos                   *)
(***************************************************************************)
\* connection.getConfirmedSignaturesForAddress2(address)
getConfirmedSignaturesForAddress2(c, address) ==
  IF address = c.historyOf THEN c.signatures ELSE <<>>

\* connection.getConfirmedTransaction(signature): the transaction, or null
getConfirmedTransaction(c, signature) ==
  IF \E t \in c.transactions : t.signature = signature
  THEN Some(CHOOSE t \in c.transactions : t.signature = signature)
  ELSE None

\* mutant: the opcode byte is not looked at
isCreateOrder_anyOpcode(i) ==
  i.programId = BONFIDABOT_PROGRAM_ID

\* i.programId.toBase58() === BONFIDABOT_PROGRAM_ID.toBase58() && i.data[0] == 3
isCreateOrder(i) ==
  i.programId = BONFIDABOT_PROGRAM_ID /\ ByteAt(i.data, 0) = 3

RECURSIVE mapInstructions(_, _, _)
\* t.transaction.instructions.map(...).filter(o => o): the decoded orders of
\* the matching instructions, in instruction order; a failed decoding throws
mapInstructions(instructions, poolInfo, sig) ==
  IF instructions = <<>> THEN Ok(<<>>)
  ELSE LET rest == mapInstructions(Tail(instructions), poolInfo, sig)
       IN IF isCreateOrder(Head(instructions))
          THEN LET o == parseCreateOrderInstruction(Head(instructions).data,
                                                    poolInfo, sig)
               IN IF ~o.ok \/ ~rest.ok THEN Fail
                  ELSE Ok(<<o.value[1]>> \o rest.value[1])
          ELSE rest

\* mutant: a transaction that cannot be fetched fails the call
getPoolOrdersInfosFromSignature_rejectNull(t, poolInfo, sig) ==
  IF t = None THEN Fail
  ELSE LET x == mapInstructions(t[1].transaction.instructions, poolInfo, sig)
       IN IF x.ok THEN Ok(Some(x.value[1])) ELSE Fail

\* getPoolOrdersInfosFromSignature once its transaction fetch has completed
\* with t: undefined for a null transaction
getPoolOrdersInfosFromSignature(t, poolInfo, sig) ==
  IF t = None THEN Ok(None)
  ELSE LET x == mapInstructions(t[1].transaction.instructions, poolInfo, sig)
       IN IF x.ok THEN Ok(Some(x.value[1])) ELSE Fail

RECURSIVE filterDefined(_)
\* (...).filter(o => o) over the per-signature results
filterDefined(results) ==
  IF results = <<>> THEN <<>>
  ELSE (IF Head(results) = None THEN <<>> ELSE <<Head(results)[1]>>)
         \o filterDefined(Tail(results))

\* mutant: one entry too many is kept
firstN_oneMore(infos, n) == Slice(infos, 0, n + 1)

\* infos.slice(0, n), for n >= 0
firstN(infos, n) == Slice(infos, 0, n)

(***************************************************************************)
(* Specification of the order history: one call of getPoolOrderInfos,      *)
(* whose transaction fetches complete in any order.                        *)
(***************************************************************************)
MaxSignatures == 2
MaxN == 3

OtherInstruction(programId, opcode, id) ==
  [programId |-> programId,
   data |-> PackCreateOrder(opcode,
              [poolSeed |-> Key(1), side |-> 0, limitPrice |-> 1500,
               ratio |-> 300, orderType |-> 1, clientOrderId |-> id,
               selfTrade |-> 0, marketIndex |-> 1])]

CreateOrderInstruction(id) == OtherInstruction(BONFIDABOT_PROGRAM_ID, 3, id)

\* the instruction lists of the transactions in the pool's history
TransactionKinds ==
  {<<CreateOrderInstruction(1), OtherInstruction(BONFIDABOT_PROGRAM_ID, 4, 2),
     CreateOrderInstruction(3)>>,
   <<OtherInstruction(SERUM_PROGRAM_ID, 3, 4), CreateOrderInstruction(5)>>,
   <<[programId |-> BONFIDABOT_PROGRAM_ID, data |-> <<>>]>>,
   <<[programId |-> BONFIDABOT_PROGRAM_ID,
      data |-> PackCreateOrder(3,
                 [poolSeed |-> Key(1), side |-> 2, limitPrice |-> 1,
                  ratio |-> 1, orderType |-> 3, clientOrderId |-> 6,
                  selfTrade |-> 3, marketIndex |-> 2])]>>,
   <<[programId |-> BONFIDABOT_PROGRAM_ID,
      data |-> SubSeq(CreateOrderInstruction(7).data, 1, 40)]>>}

\* the signature of the k-th entry of the history
SignatureAt(k) == [signature |-> 500 + k, slot |-> 900 - k]

InitOrders ==
  /\ \E kinds \in SeqsUpTo(TransactionKinds, MaxSignatures),
        lost \in SUBSET (1..MaxSignatures), present \in BOOLEAN :
       /\ lost \subseteq DOMAIN kinds
       /\ Cardinality(lost) <= 1
       /\ ~present => kinds = <<>>
       /\ chain =
            [accounts |->
               IF present
               THEN {[address |-> PoolKeyOf(1),
                      data |-> PoolBytes(1, 31, <<11, 12>>, <<21>>)]}
               ELSE {},
             historyOf |-> PoolKeyOf(1),
             signatures |-> [k \in DOMAIN kinds |-> SignatureAt(k)],
             transactions |->
               {[signature |-> SignatureAt(k).signature,
                 transaction |-> [instructions |-> kinds[k]]] :
                  k \in DOMAIN kinds \ lost}]
  /\ \E n \in 0..MaxN : input = [poolSeed |-> Key(1), n |-> n]
  /\ pc = "fetchPoolInfo"
  /\ local = [op |-> "getPoolOrderInfos"]
  /\ outcome = Pending
  /\ log = <<>>

\* let poolInfo = await fetchPoolInfo(connection, poolSeed)
OrdersFetchPoolInfo ==
  /\ pc = "fetchPoolInfo"
  /\ LET r == fetchPoolInfo(chain, input.poolSeed)
     IN /\ log' = log \o r.rpc
        /\ IF r.status = "ok"
           THEN /\ pc' = "listSignatures"
                /\ local' = [op |-> "getPoolOrderInfos", poolInfo |-> r.value[1]]
                /\ UNCHANGED outcome
           ELSE /\ pc' = "done"
                /\ outcome' = [status |-> "error", value |-> None,
                               error |-> r.error]
                /\ UNCHANGED local
  /\ UNCHANGED <<chain, input>>

\* the signatures arrive and one transaction fetch per signature is issued,
\* in signature order, before any of them is awaited
OrdersListSignatures ==
  /\ pc = "listSignatures"
  /\ LET confirmedsignatures ==
           getConfirmedSignaturesForAddress2(chain, local.poolInfo.address)
     IN /\ local' = [op |-> "getPoolOrderInfos",
                     poolInfo |-> local.poolInfo,
                     confirmedsignatures |-> confirmedsignatures,
                     settled |-> [k \in DOMAIN confirmedsignatures |-> None]]
        /\ log' = log
             \o <<Rpc("getConfirmedSignaturesForAddress2", local.poolInfo.address)>>
             \o [k \in DOMAIN confirmedsignatures |->
                   Rpc("getConfirmedTransaction",
                       <<confirmedsignatures[k].signature>>)]
  /\ pc' = "awaitAll"
  /\ UNCHANGED <<chain, input, outcome>>

\* the transaction fetch of signature k completes and its orders are decoded;
\* a decoding failure rejects the joint await
OrdersTransactionFetched(k) ==
  /\ pc = "awaitAll"
  /\ k \in DOMAIN local.settled
  /\ local.settled[k] = None
  /\ LET sig == local.confirmedsignatures[k]
         r == getPoolOrdersInfosFromSignature(
                getConfirmedTransaction(chain, sig.signature),
                local.poolInfo, sig)
     IN IF r.ok
        THEN /\ local' = [local EXCEPT !.settled[k] = Some(r.value[1])]
             /\ UNCHANGED <<pc, outcome>>
        ELSE /\ pc' = "done"
             /\ outcome' = [status |-> "error", value |-> None,
                            error |-> "DecodingError"]
             /\ UNCHANGED local
  /\ UNCHANGED <<chain, input, log>>

\* every fetch has completed: the results are filtered, flattened in
\* signature order and cut to the first n
OrdersJoin ==
  /\ pc = "awaitAll"
  /\ \A k \in DOMAIN local.settled : local.settled[k] # None
  /\ LET infos ==
           Flat(filterDefined([k \in DOMAIN local.settled |-> local.settled[k][1]]))
     IN /\ local' = [op |-> "getPoolOrderInfos", poolInfo |-> local.poolInfo,
                     confirmedsignatures |-> local.confirmedsignatures,
                     settled |-> local.settled, infos |-> infos]
        /\ outcome' = [status |-> "ok", value |-> Some(firstN(infos, input.n)),
                       error |-> ""]
  /\ pc' = "done"
  /\ UNCHANGED <<chain, input, log>>

NextOrders ==
  \/ OrdersFetchPoolInfo
  \/ OrdersListSignatures
  \/ \E k \in 1..MaxSignatures : OrdersTransactionFetched(k)
  \/ OrdersJoin

SpecOrders == InitOrders /\ [][NextOrders]_vars

(***************************************************************************)
(* Properties of the order history.                                        *)
(***************************************************************************)
\* the instructions of the transaction of the s-th listed signature; none
\* when the transaction cannot be fetched
HistoryInstructions(s) ==
  IF \E t \in chain.transactions : t.signature = chain.signatures[s].signature
  THEN (CHOOSE t \in chain.transactions :
          t.signature = chain.signatures[s].signature).transaction.instructions
  ELSE <<>>

\* the (signature position, instruction position) pairs of the instructions
\* that target the trading program with opcode 3
QualifyingOrders ==
  {q \in (DOMAIN chain.signatures) \X (1..4) :
     /\ q[2] \in DOMAIN HistoryInstructions(q[1])
     /\ LET i == HistoryInstructions(q[1])[q[2]]
        IN /\ i.programId = BONFIDABOT_PROGRAM_ID
           /\ Len(i.data) > 0
           /\ i.data[1] = 3}

\* the position of a qualifying instruction in signature-then-instruction order
Rank(q) ==
  Cardinality({r \in QualifyingOrders :
                 r[1] < q[1] \/ (r[1] = q[1] /\ r[2] <= q[2])})

\* the order record was decoded from the instruction at q
DecodedFrom(o, q) ==
  /\ o.transactionSignature = chain.signatures[q[1]].signature
  /\ o.transactionSlot = chain.signatures[q[1]].slot
  /\ o.clientOrderId = HistoryInstructions(q[1])[q[2]].data[46]

\* C6: getPoolOrderInfos returns at most n entries, fewer than n only when
\* fewer than n qualifying instructions exist in the listed transactions, and
\* otherwise exactly the first n in signature-then-instruction order.
C6_FirstNOrders ==
  (pc = "done" /\ outcome.status = "ok") =>
     LET out == outcome.value[1]
     IN /\ Len(out) <= input.n
        /\ Len(out) < input.n => Len(out) = Cardinality(QualifyingOrders)
        /\ Cardinality(QualifyingOrders) >= input.n => Len(out) = input.n
        /\ \A q \in QualifyingOrders :
             Rank(q) <= input.n => DecodedFrom(out[Rank(q)], q)

\* C6 witness: three qualifying instructions over two transactions, two asked
C6_Witness ==
  /\ pc = "done" /\ outcome.status = "ok"
  /\ input.n = 2 /\ Cardinality(QualifyingOrders) = 3
  /\ Len(outcome.value[1]) = 2

\* C7: only instructions that target the trading program with opcode 3 are in
\* the output of getPoolOrderInfos, and every such instruction of a fetched
\* transaction is decoded into the list the output is cut from.
C7_OnlyCreateOrders ==
  (pc = "done" /\ outcome.status = "ok") =>
     /\ \A k \in DOMAIN outcome.value[1] :
          \E q \in QualifyingOrders : DecodedFrom(outcome.value[1][k], q)
     /\ \A k \in DOMAIN local.infos :
          \E q \in QualifyingOrders : DecodedFrom(local.infos[k], q)
     /\ \A q \in QualifyingOrders :
          \E k \in DOMAIN local.infos : DecodedFrom(local.infos[k], q)
     /\ Len(local.infos) = Cardinality(QualifyingOrders)

\* C7 witness: a transaction holding an instruction of the trading program
\* with another opcode between two order creations was decoded into two orders
C7_Witness ==
  /\ pc = "done" /\ outcome.status = "ok"
  /\ Len(chain.signatures) = 1
  /\ Len(HistoryInstructions(1)) = 3
  /\ HistoryInstructions(1)[2].data[1] = 4
  /\ Len(outcome.value[1]) = 2

\* every qualifying instruction of the fetched transactions is long enough to
\* be decoded
AllOrdersDecode ==
  \A q \in QualifyingOrders :
    Len(HistoryInstructions(q[1])[q[2]].data) >= CreateOrderLEN

\* the transaction fetches in the request log, in the order they were issued
TransactionFetches ==
  SelectSeq(log, LAMBDA r : r.call = "getConfirmedTransaction")

\* the listed position of the signature an order record carries
SignaturePosition(o) ==
  CHOOSE s \in DOMAIN chain.signatures :
    chain.signatures[s].signature = o.transactionSignature

TOKEN_MINTS ==
  <<[address |-> Key(21), name |-> "USDC"],
    [address |-> Key(22), name |-> "SRM"],
    [address |-> Key(23), name |-> "BTC"],
    [address |-> Key(24), name |-> "FTT"],
    [address |-> Key(25), name |-> "ETH"]>>

\* MARKETS of @project-serum/serum: a pair may be listed more than once, the
\* superseded market first; ETH has no USDC market
MARKETS ==
  <<[name |-> <<"SRM", "/USDC">>, address |-> Key(61), deprecated |-> TRUE],
    [name |-> <<"BTC", "/USDC">>, address |-> Key(63), deprecated |-> FALSE],
    [name |-> <<"FTT", "/USDC">>, address |-> Key(64), deprecated |-> TRUE],
    [name |-> <<"SRM", "/USDC">>, address |-> Key(62), deprecated |-> FALSE]>>

\* TOKEN_MINTS[TOKEN_MINTS.map(t => t.address.toString()).indexOf(mint)].name:
\* the symbol of the first entry with this mint; a TypeError when there is none
tokenName(mint) ==
  LET found == {i \in DOMAIN TOKEN_MINTS : TOKEN_MINTS[i].address = mint}
  IN IF found = {} THEN None
     ELSE Some(TOKEN_MINTS[CHOOSE i \in found : \A j \in found : i <= j].name)

\* tokenSymbol.concat('/USDC')
concatUSDC(symbol) == <<symbol, "/USDC">>

\* MARKETS[MARKETS.map(m => m.name).lastIndexOf(pairSymbol)]: the last entry
\* with this name; undefined when there is none
marketInfoOf(pairSymbol) ==
  LET found == {i \in DOMAIN MARKETS : MARKETS[i].name = pairSymbol}
  IN IF found = {} THEN None
     ELSE Some(MARKETS[CHOOSE i \in found : \A j \in found : i >= j])

TokenAccountLEN == 165

\* the bytes of a token account: mint, owner, amount, then the other fields
PackTokenAccount(mint, owner, amount) ==
  mint \o owner \o LEBytes(amount, 8) \o [i \in 1..(TokenAccountLEN - 72) |-> 0]

\* AccountLayout.decode(tokenData).mint and .amount
AccountLayout_decode(tokenData) ==
  [mint |-> Slice(tokenData, 0, 32), amount |-> LEValue(Slice(tokenData, 64, 72))]

\* getMidPrice(connection, marketAddress) of utils.ts: the loaded market and
\* its mid price
getMidPrice(c, marketAddress) ==
  <<[address |-> marketAddress, quoteMintAddress |-> Key(21)],
    (CHOOSE m \in c.midPrices : m.market = marketAddress).price>>

\* createAssociatedTokenAccount(systemProgramId, payer, owner, mint)
createAssociatedTokenAccount(payer, owner, mint) ==
  [instruction |-> "createAssociatedTokenAccount", payer |-> payer,
   owner |-> owner, mint |-> mint,
   address |-> findAssociatedTokenAddress(owner, mint)]

\* signAndSendTransactionInstructions(connection, signers, payer, instructions)
SendTransaction(signers, payer, instructions) ==
  [call |-> "sendTransaction", signers |-> signers, payer |-> payer,
   instructions |-> instructions]

\* the accounts a submitted transaction creates
CreatedAccounts(instructions) ==
  {[address |-> instructions[k].address,
    data |-> PackTokenAccount(instructions[k].mint, instructions[k].owner, 0)] :
     k \in {j \in DOMAIN instructions :
              instructions[j].instruction = "createAssociatedTokenAccount"}}

\* mutant: the error is reported and the workflow carries on with the
\* provisioning step
DepositThrow_carryOn(e, rpc) ==
  /\ pc' = "provision"
  /\ outcome' = [status |-> "error", value |-> None, error |-> e]
  /\ log' = log \o rpc
  /\ UNCHANGED <<chain, input, local>>

\* throw e: the call ends with the error, after the requests in rpc
DepositThrow(e, rpc) ==
  /\ pc' = "done"
  /\ outcome' = [status |-> "error", value |-> None, error |-> e]
  /\ log' = log \o rpc
  /\ UNCHANGED <<chain, input, local>>

\* the local variables of singleTokenDeposit before the first statement
DepositLocals ==
  [op |-> "singleTokenDeposit", poolKey |-> <<>>, poolMintKey |-> <<>>,
   poolHeader |-> None, poolAssets |-> <<>>, tokenInitialBalance |-> 0,
   tokenSymbol |-> "", amount |-> 0, usdcMarketInfo |-> None,
   marketUSDC |-> None, midPriceUSDC |-> 0, sourceUSDCKey |-> <<>>,
   sourceAssetKeys |-> <<>>, poolAssetKeys |-> <<>>,
   totalPoolAssetAmount |-> 0, poolAssetAmounts |-> <<>>,
   poolAssetMarkets |-> <<>>, poolTokenAmount |-> [n |-> 0, d |-> 1], i |-> 0]

\* lines 252-273: derive the addresses, fetch and decode the pool account
DepositResolvePool ==
  /\ pc = "resolvePool"
  /\ LET poolKey == createProgramAddress(<<input.poolSeed>>, BONFIDABOT_PROGRAM_ID)
         poolMintKey ==
           createProgramAddress(<<input.poolSeed, array_one>>,
                                BONFIDABOT_PROGRAM_ID)
         poolInfo == getAccountInfo(chain, poolKey)
         rpc == <<Rpc("getAccountInfo", poolKey)>>
     IN IF poolInfo = None THEN DepositThrow("Pool account is unavailable", rpc)
        ELSE
          LET poolHeader == decodeHeader(poolInfo[1])
          IN IF ~poolHeader.ok THEN DepositThrow("DecodingError", rpc)
             ELSE
               LET poolAssets ==
                     unpack_assets(
                       SliceFrom(poolInfo[1], assetsOffset(poolHeader.value[1])))
               IN IF ~poolAssets.ok THEN DepositThrow("DecodingError", rpc)
                  ELSE /\ local' = [local EXCEPT
                                      !.poolKey = poolKey,
                                      !.poolMintKey = poolMintKey,
                                      !.poolHeader = poolHeader.value,
                                      !.poolAssets = poolAssets.value[1]]
                       /\ log' = log \o rpc
                       /\ pc' = "resolveSource"
                       /\ UNCHANGED <<chain, input, outcome>>

\* lines 275-300 and 362-365: inspect the source token account, size the
\* amount, and choose the conversion market unless the source is USDC
DepositResolveSource ==
  /\ pc = "resolveSource"
  /\ LET tokenInfo == getAccountInfo(chain, input.sourceTokenKey)
         rpc1 == <<Rpc("getAccountInfo", input.sourceTokenKey)>>
     IN IF tokenInfo = None
        THEN DepositThrow("Source asset account is unavailable", rpc1)
        ELSE
          LET tokenMint == PublicKey(AccountLayout_decode(tokenInfo[1]).mint)
              tokenInitialBalance == AccountLayout_decode(tokenInfo[1]).amount
              tokenSymbol == tokenName(tokenMint)
              balance == getTokenAccountBalance(chain, input.sourceTokenKey)
              rpc2 == Append(rpc1, Rpc("getTokenAccountBalance",
                                       input.sourceTokenKey))
          IN IF tokenSymbol = None THEN DepositThrow("TypeError", rpc1)
             ELSE IF balance = None
             THEN DepositThrow("getTokenAccountBalance failed", rpc2)
             ELSE
               LET precision == balance[1].decimals
                   amount == precision * input.user_amount
                   usdcMarketInfo == marketInfoOf(concatUSDC(tokenSymbol[1]))
                   resolved == [local EXCEPT
                                  !.tokenInitialBalance = tokenInitialBalance,
                                  !.tokenSymbol = tokenSymbol[1],
                                  !.amount = amount]
               IN IF tokenSymbol[1] # "USDC"
                  THEN IF usdcMarketInfo = None THEN DepositThrow("TypeError", rpc2)
                       ELSE IF usdcMarketInfo[1].deprecated
                       THEN DepositThrow("Chosen Market is deprecated", rpc2)
                       ELSE /\ local' = [resolved EXCEPT
                                           !.usdcMarketInfo = usdcMarketInfo]
                            /\ log' = log \o rpc2
                            /\ pc' = "convert"
                            /\ UNCHANGED <<chain, input, outcome>>
                  ELSE /\ local' = [resolved EXCEPT
                                      !.midPriceUSDC = 1,
                                      !.sourceUSDCKey = input.sourceTokenKey]
                       /\ log' = log \o rpc2
                       /\ pc' = "verify"
                       /\ UNCHANGED <<chain, input, outcome>>

\* what the venue does with the sell order: the source account is debited
\* down to c.fill, or is gone when c.fill is negative
ApplyFill(c, sourceTokenKey) ==
  [c EXCEPT !.accounts =
     {a \in c.accounts : a.address # sourceTokenKey}
       \cup (IF c.fill < 0 THEN {}
             ELSE {[address |-> a.address,
                    data |-> PackTokenAccount(
                               AccountLayout_decode(a.data).mint,
                               Slice(a.data, 32, 64), c.fill)] :
                     a \in {b \in c.accounts : b.address = sourceTokenKey}})]

\* lines 302-325: read the mid price and place the immediate-or-cancel sell
\* order at 95% of it
DepositSellOrder ==
  /\ pc = "convert"
  /\ LET mp == getMidPrice(chain, local.usdcMarketInfo[1].address)
         marketUSDC == mp[1]
         midPriceUSDC == mp[2]
     IN /\ local' = [local EXCEPT !.marketUSDC = Some(marketUSDC),
                                  !.midPriceUSDC = midPriceUSDC]
        /\ log' = log \o
             <<Rpc("getMidPrice", marketUSDC.address),
               [call |-> "placeOrder", market |-> marketUSDC.address,
                owner |-> input.sourceOwner, payer |-> input.sourceTokenKey,
                side |-> "sell", price |-> [n |-> 95 * midPriceUSDC, d |-> 100],
                size |-> [n |-> local.amount, d |-> 1], orderType |-> "ioc"]>>
  /\ chain' = ApplyFill(chain, input.sourceTokenKey)
  /\ pc' = "usdcAccount"
  /\ UNCHANGED <<input, outcome>>

\* lines 327-342: find the depositor's USDC account, creating it if missing
DepositEnsureUsdcAccount ==
  /\ pc = "usdcAccount"
  /\ LET sourceUSDCKey ==
           findAssociatedTokenAddress(input.sourceOwner,
                                      local.marketUSDC[1].quoteMintAddress)
         sourceUSDCInfo == getAccountInfo(chain, sourceUSDCKey)
         createUSDCInstruction ==
           createAssociatedTokenAccount(input.payer, input.sourceOwner,
                                        local.marketUSDC[1].quoteMintAddress)
     IN /\ local' = [local EXCEPT !.sourceUSDCKey = sourceUSDCKey]
        /\ IF sourceUSDCInfo = None
           THEN /\ log' = log \o
                     <<Rpc("getAccountInfo", sourceUSDCKey),
                       SendTransaction(<<>>, input.payer, <<createUSDCInstruction>>)>>
                /\ chain' = [chain EXCEPT !.accounts =
                               @ \cup CreatedAccounts(<<createUSDCInstruction>>)]
           ELSE /\ log' = Append(log, Rpc("getAccountInfo", sourceUSDCKey))
                /\ UNCHANGED chain
  /\ pc' = "sleepConvert"
  /\ UNCHANGED <<input, outcome>>

SettlementDelay == 3000

\* mutant: the conversion is settled without waiting
DepositConvertWait_skipped ==
  /\ pc = "sleepConvert"
  /\ pc' = "settleConvert"
  /\ UNCHANGED <<chain, input, local, outcome, log>>

\* line 345: await sleep(3 * 1000)
DepositConvertWait ==
  /\ pc = "sleepConvert"
  /\ log' = Append(log, [call |-> "sleep", ms |-> SettlementDelay])
  /\ pc' = "settleConvert"
  /\ UNCHANGED <<chain, input, local, outcome>>

\* market.settleFunds(connection, owner, openOrder, baseWallet, quoteWallet)
MarketSettleFunds(market, owner, openOrder, baseWallet, quoteWallet) ==
  [call |-> "settleFunds", market |-> market, owner |-> owner,
   openOrders |-> openOrder, baseWallet |-> baseWallet,
   quoteWallet |-> quoteWallet]

\* lines 347-361: settle every open orders account of the depositor on the
\* conversion market
DepositSettleConvert ==
  /\ pc = "settleConvert"
  /\ LET market == local.marketUSDC[1].address
         openOrders ==
           findOpenOrdersAccountsForOwner(chain, market, input.sourceOwner)
     IN log' = log
          \o <<Rpc("findOpenOrdersAccountsForOwner", market)>>
          \o [k \in DOMAIN openOrders |->
                MarketSettleFunds(market, input.sourceOwner, openOrders[k],
                                  input.sourceTokenKey, local.sourceUSDCKey)]
  /\ pc' = "verify"
  /\ UNCHANGED <<chain, input, local, outcome>>

\* mutant: the conversion counts as unmatched when the balance decreased by
\* less than the amount
conversionNotMatched_shortfall(tokenInitialBalance, tokenBalance, amount) ==
  tokenInitialBalance - tokenBalance < amount

\* line 374: tokenInitialBalance - tokenBalance > amount
conversionNotMatched(tokenInitialBalance, tokenBalance, amount) ==
  tokenInitialBalance - tokenBalance > amount

\* lines 367-376: re-read the source balance and verify the conversion
DepositVerifyConversion ==
  /\ pc = "verify"
  /\ LET tokenInfo == getAccountInfo(chain, input.sourceTokenKey)
         rpc == <<Rpc("getAccountInfo", input.sourceTokenKey)>>
     IN IF tokenInfo = None
        THEN DepositThrow("Source asset account is unavailable", rpc)
        ELSE
          LET tokenBalance == AccountLayout_decode(tokenInfo[1]).amount
          IN IF conversionNotMatched(local.tokenInitialBalance, tokenBalance,
                                     local.amount)
             THEN DepositThrow("Conversion to USDC Order was not matched.", rpc)
             ELSE /\ log' = log \o rpc
                  /\ pc' = "provision"
                  /\ UNCHANGED <<chain, input, local, outcome>>

RECURSIVE GCD(_, _)
GCD(a, b) == IF b = 0 THEN a ELSE GCD(b, a % b)

\* the quotient n / d of two non-negative numbers, kept exact and in lowest
\* terms; d = 0 with n > 0 is JavaScript's Infinity
Ratio(n, d) ==
  LET g == GCD(n, d) IN IF g = 0 THEN [n |-> 0, d |-> 0]
                        ELSE [n |-> n \div g, d |-> d \div g]

\* a >= b for two non-negative quotients: by whole parts, then by remainders
RatioGeq(a, b) ==
  IF a.d = 0 THEN TRUE
  ELSE IF b.d = 0 THEN FALSE
  ELSE IF a.n \div a.d # b.n \div b.d THEN a.n \div a.d > b.n \div b.d
  ELSE (a.n % a.d) * b.d >= (b.n % b.d) * a.d

\* Math.max(a, b) of two non-negative quotients
MathMax(a, b) == IF RatioGeq(a, b) THEN a ELSE b

\* mutant: every asset account is taken to be missing
accountIsMissing_always(sourceAssetInfo) == TRUE

\* line 394: !sourceAssetInfo
accountIsMissing(sourceAssetInfo) == sourceAssetInfo = None

RECURSIVE provisionLoop(_, _, _, _, _, _)
\* the loop of lines 382-404 over the pool assets: the depositor's and the
\* pool's asset accounts, the account fetches and the create instructions
provisionLoop(c, inp, poolKey, poolAssets, acc, rpc) ==
  IF poolAssets = <<>> THEN [keys |-> acc, rpc |-> rpc]
  ELSE
    LET asset == Head(poolAssets)
        sourceAssetKey ==
          findAssociatedTokenAddress(inp.sourceOwner, asset.mintAddress)
        poolAssetKey == findAssociatedTokenAddress(poolKey, asset.mintAddress)
        sourceAssetInfo == getAccountInfo(c, sourceAssetKey)
    IN provisionLoop(c, inp, poolKey, Tail(poolAssets),
         [sourceAssetKeys |-> Append(acc.sourceAssetKeys, sourceAssetKey),
          poolAssetKeys |-> Append(acc.poolAssetKeys, poolAssetKey),
          createAssetInstructions |->
            IF accountIsMissing(sourceAssetInfo)
            THEN Append(acc.createAssetInstructions,
                        createAssociatedTokenAccount(inp.payer, inp.sourceOwner,
                                                     asset.mintAddress))
            ELSE acc.createAssetInstructions],
         Append(rpc, Rpc("getAccountInfo", sourceAssetKey)))

\* lines 378-412: make sure the depositor holds an account for every pool
\* asset, creating the missing ones in one transaction
DepositProvision ==
  /\ pc = "provision"
  /\ LET r == provisionLoop(chain, input, local.poolKey, local.poolAssets,
                 [sourceAssetKeys |-> <<>>, poolAssetKeys |-> <<>>,
                  createAssetInstructions |-> <<>>], <<>>)
         createAssetInstructions == r.keys.createAssetInstructions
     IN /\ local' = [local EXCEPT !.sourceAssetKeys = r.keys.sourceAssetKeys,
                                  !.poolAssetKeys = r.keys.poolAssetKeys]
        /\ IF Len(createAssetInstructions) > 0
           THEN /\ log' = log \o r.rpc
                     \o <<SendTransaction(<<>>, input.payer,
                                          createAssetInstructions)>>
                /\ chain' = [chain EXCEPT !.accounts =
                               @ \cup CreatedAccounts(createAssetInstructions)]
           ELSE /\ log' = log \o r.rpc
                /\ UNCHANGED chain
  /\ pc' = "poolBalances"
  /\ UNCHANGED <<input, outcome>>

RECURSIVE poolAmountsLoop(_, _, _, _, _)
\* the loop of lines 418-428: the balance of each pool asset account
poolAmountsLoop(c, poolKey, poolAssets, poolAssetAmounts, rpc) ==
  IF poolAssets = <<>>
  THEN [ok |-> TRUE, poolAssetAmounts |-> poolAssetAmounts, rpc |-> rpc]
  ELSE
    LET poolAssetKey ==
          findAssociatedTokenAddress(poolKey, Head(poolAssets).mintAddress)
        balance == getTokenAccountBalance(c, poolAssetKey)
        rpcBalance == Append(rpc, Rpc("getTokenAccountBalance", poolAssetKey))
    IN IF balance = None
       THEN [ok |-> FALSE, poolAssetAmounts |-> poolAssetAmounts,
             rpc |-> rpcBalance]
       ELSE poolAmountsLoop(c, poolKey, Tail(poolAssets),
                            Append(poolAssetAmounts, balance[1].amount),
                            rpcBalance)

RECURSIVE Sum(_)
Sum(amounts) == IF amounts = <<>> THEN 0 ELSE Head(amounts) + Sum(Tail(amounts))

\* lines 414-430: read the pool's balance of every asset
DepositReadPoolBalances ==
  /\ pc = "poolBalances"
  /\ LET r == poolAmountsLoop(chain, local.poolKey, local.poolAssets, <<>>, <<>>)
     IN IF ~r.ok THEN DepositThrow("getTokenAccountBalance failed", r.rpc)
        ELSE /\ local' = [local EXCEPT
                            !.poolAssetAmounts = r.poolAssetAmounts,
                            !.totalPoolAssetAmount = Sum(r.poolAssetAmounts),
                            !.poolAssetMarkets = <<>>,
                            !.poolTokenAmount = [n |-> 0, d |-> 1],
                            !.i = 0]
             /\ log' = log \o r.rpc
             /\ pc' = "rebalance"
             /\ UNCHANGED <<chain, input, outcome>>

\* mutant: an asset the pool holds nothing of is traded like the others
hasNoPoolBalance_never(poolAssetAmount) == FALSE

\* line 451: poolAssetAmounts[i] == 0
hasNoPoolBalance(poolAssetAmount) == poolAssetAmount = 0

\* lines 431-491, one iteration of the loop: the buy order of pool asset i
DepositBuyOrder ==
  /\ pc = "rebalance"
  /\ local.i < Len(local.poolAssets)
  /\ LET asset == local.poolAssets[local.i + 1]
         poolAssetSymbol == tokenName(asset.mintAddress)
         assetAmount == local.poolAssetAmounts[local.i + 1]
     IN IF poolAssetSymbol = None THEN DepositThrow("TypeError", <<>>)
        ELSE IF poolAssetSymbol[1] # "USDC"
        THEN
          LET assetMarketInfo == marketInfoOf(concatUSDC(poolAssetSymbol[1]))
          IN IF assetMarketInfo = None THEN DepositThrow("TypeError", <<>>)
             ELSE IF assetMarketInfo[1].deprecated
             THEN DepositThrow("Chosen Market is deprecated", <<>>)
             ELSE IF hasNoPoolBalance(assetAmount)
             THEN /\ local' = [local EXCEPT !.i = @ + 1]
                  /\ UNCHANGED <<chain, input, outcome, log, pc>>
             ELSE
               LET mp == getMidPrice(chain, assetMarketInfo[1].address)
                   assetMarket == mp[1]
                   assetMidPrice == mp[2]
                   assetAmountToBuy ==
                     Ratio(local.midPriceUSDC * local.amount * assetAmount,
                           assetMidPrice * local.totalPoolAssetAmount)
               IN /\ local' = [local EXCEPT
                       !.poolAssetMarkets = Append(@, Some(assetMarket)),
                       !.poolTokenAmount =
                         MathMax(@, Ratio(assetAmountToBuy.n,
                                          assetAmountToBuy.d * assetAmount)),
                       !.i = @ + 1]
                  /\ log' = log \o
                       <<Rpc("getMidPrice", assetMarket.address),
                         [call |-> "placeOrder", market |-> assetMarket.address,
                          owner |-> input.sourceOwner,
                          payer |-> local.sourceUSDCKey, side |-> "buy",
                          price |-> [n |-> 105 * assetMidPrice, d |-> 100],
                          size |-> assetAmountToBuy, orderType |-> "ioc"]>>
                  /\ UNCHANGED <<chain, input, outcome, pc>>
        ELSE /\ local' = [local EXCEPT
                  !.poolAssetMarkets = Append(@, None),
                  !.poolTokenAmount =
                    MathMax(@, Ratio(1000000 * local.midPriceUSDC * local.amount,
                                     local.totalPoolAssetAmount)),
                  !.i = @ + 1]
             /\ UNCHANGED <<chain, input, outcome, log, pc>>

\* mutant: after the wait the settle loop is passed over
DepositRebalanceWait_skipSettle ==
  /\ pc = "rebalance"
  /\ local.i = Len(local.poolAssets)
  /\ log' = Append(log, [call |-> "sleep", ms |-> SettlementDelay])
  /\ pc' = "settleRebalance"
  /\ UNCHANGED <<chain, input, outcome, local>>

\* line 494: await sleep(3 * 1000), once the loop over the assets has ended
DepositRebalanceWait ==
  /\ pc = "rebalance"
  /\ local.i = Len(local.poolAssets)
  /\ log' = Append(log, [call |-> "sleep", ms |-> SettlementDelay])
  /\ local' = [local EXCEPT !.i = 0]
  /\ pc' = "settleRebalance"
  /\ UNCHANGED <<chain, input, outcome>>

\* lines 498-515, one iteration of the loop: settle the open orders of the
\* market at position i of poolAssetMarkets into the depositor's account i
DepositSettleRebalance ==
  /\ pc = "settleRebalance"
  /\ local.i < Len(local.poolAssets)
  /\ LET assetMarket ==
           IF local.i + 1 \in DOMAIN local.poolAssetMarkets
           THEN local.poolAssetMarkets[local.i + 1] ELSE None
     IN IF assetMarket # None
        THEN LET openOrders ==
                   findOpenOrdersAccountsForOwner(chain, assetMarket[1].address,
                                                  input.sourceOwner)
             IN log' = log
                  \o <<Rpc("findOpenOrdersAccountsForOwner", assetMarket[1].address)>>
                  \o [k \in DOMAIN openOrders |->
                        MarketSettleFunds(assetMarket[1].address,
                          input.sourceOwner, openOrders[k],
                          local.sourceAssetKeys[local.i + 1],
                          local.sourceUSDCKey)]
        ELSE UNCHANGED log
  /\ local' = [local EXCEPT !.i = @ + 1]
  /\ UNCHANGED <<chain, input, outcome, pc>>

BONFIDA_FEE_KEY == Key(51)
BONFIDA_BNB_KEY == Key(52)

\* findAndCreateAssociatedAccount(systemProgramId, connection, owner, mint,
\* payer) of utils.ts: the associated address, and the instruction creating
\* it when no account is there
findAndCreateAssociatedAccount(c, owner, mint, payer) ==
  LET key == findAssociatedTokenAddress(owner, mint)
  IN <<key,
       IF getAccountInfo(c, key) = None
       THEN Some(createAssociatedTokenAccount(payer, owner, mint)) ELSE None>>

\* depositInstruction(...) of instructions.ts
depositInstruction(sigProviderFeeReceiverKey, bonfidaFeeReceiverKey, bonfidaBuyAndBurnKey, poolMintKey, poolKey, poolAssetKeys, targetPoolTokenKey, sourceOwnerKey, sourceAssetKeys, poolSeeds, poolTokenAmount) ==
  [instruction |-> "deposit",
   sigProviderFeeReceiverKey |-> sigProviderFeeReceiverKey,
   bonfidaFeeReceiverKey |-> bonfidaFeeReceiverKey,
   bonfidaBuyAndBurnKey |-> bonfidaBuyAndBurnKey,
   poolMintKey |-> poolMintKey, poolKey |-> poolKey,
   poolAssetKeys |-> poolAssetKeys, targetPoolTokenKey |-> targetPoolTokenKey,
   sourceOwnerKey |-> sourceOwnerKey, sourceAssetKeys |-> sourceAssetKeys,
   poolSeeds |-> poolSeeds, poolTokenAmount |-> poolTokenAmount]

\* mutant: a create instruction that came back is left out of the transaction
pushCreated_dropped(instructions, createInstruction) == instructions

\* lines 529, 541, 553, 565: xInstruction ? instructions.push(xInstruction) :
\* null
pushCreated(instructions, createInstruction) ==
  IF createInstruction # None
  THEN Append(instructions, createInstruction[1])
  ELSE instructions

\* lines 517-596: create the missing pool-token accounts and submit the
\* deposit, once every asset position has been settled
DepositExecute ==
  /\ pc = "settleRebalance"
  /\ local.i = Len(local.poolAssets)
  /\ LET target == findAndCreateAssociatedAccount(chain, input.sourceOwner,
                     local.poolMintKey, input.payer)
         sigProv == findAndCreateAssociatedAccount(chain,
                      local.poolHeader[1].signalProvider, local.poolMintKey,
                      input.payer)
         bonfidaFee == findAndCreateAssociatedAccount(chain, BONFIDA_FEE_KEY,
                         local.poolMintKey, input.payer)
         bonfidaBNB == findAndCreateAssociatedAccount(chain, BONFIDA_BNB_KEY,
                         local.poolMintKey, input.payer)
         depositTxInstruction ==
           depositInstruction(sigProv[1], bonfidaFee[1], bonfidaBNB[1],
             local.poolMintKey, local.poolKey, local.poolAssetKeys, target[1],
             input.sourceOwner, local.sourceAssetKeys, <<input.poolSeed>>,
             [scale |-> 1000000, poolTokenAmount |-> local.poolTokenAmount])
         instructions ==
           Append(pushCreated(pushCreated(pushCreated(pushCreated(<<>>,
                    target[2]), sigProv[2]), bonfidaFee[2]), bonfidaBNB[2]),
                  depositTxInstruction)
     IN /\ log' = log
             \o <<Rpc("getAccountInfo", target[1]),
                  Rpc("getAccountInfo", sigProv[1]),
                  Rpc("getAccountInfo", bonfidaFee[1]),
                  Rpc("getAccountInfo", bonfidaBNB[1]),
                  SendTransaction(<<input.sourceOwner>>, input.payer,
                                  instructions)>>
        /\ chain' = [chain EXCEPT !.accounts =
                       @ \cup CreatedAccounts(instructions)]
  /\ outcome' = [status |-> "ok", value |-> None, error |-> ""]
  /\ pc' = "done"
  /\ UNCHANGED <<input, local>>

(***************************************************************************)
(* Specification of the deposit workflow: one call of singleTokenDeposit   *)
(* in a world of accounts, balances and venue state drawn at the start.    *)
(***************************************************************************)
SourceOwnerKey == Key(41)
SourceTokenKey == Key(42)
PayerKey == Key(43)

\* the owners whose pool-token accounts the deposit needs
PoolTokenOwners == {SourceOwnerKey, Key(31), BONFIDA_FEE_KEY, BONFIDA_BNB_KEY}

\* the mints a pool may hold: USDC, SRM, BTC, FTT (deprecated market), an
\* unlisted token
PoolMintIds == {21, 22, 23, 24, 26}

\* the mint of the source account: 0 for no account, else USDC, SRM, FTT, ETH
\* (no market) or an unlisted token
SourceMintIds == {0, 21, 22, 24, 25, 26}

DecimalsChoices == {5, 6, 7}
UserAmount == 100
InitialBalance == 1000

\* the source balance once the venue has taken the sell order; negative for
\* an account that is gone
FillChoices == {400, 1000, 1100, -1}

\* the markets the depositor may have open orders accounts on
VenueMarketIds == {62, 63}

\* sequences over S without repetition, of length at most n
NoRepSeqs(S, n) ==
  {q \in SeqsUpTo(S, n) : \A i, j \in DOMAIN q : i # j => q[i] # q[j]}

\* the world described by p
DepositWorld(p) ==
  [accounts |->
     (IF p.poolPresent
      THEN {[address |-> PoolKeyOf(1),
             data |-> PoolBytes(1, 31, <<62>>, p.poolMints)]}
      ELSE {})
     \cup (IF p.sourceMint # 0
           THEN {[address |-> SourceTokenKey,
                  data |-> PackTokenAccount(Key(p.sourceMint), SourceOwnerKey,
                                            InitialBalance)]}
           ELSE {})
     \cup {[address |-> findAssociatedTokenAddress(SourceOwnerKey, Key(m)),
            data |-> PackTokenAccount(Key(m), SourceOwnerKey, 0)] :
             m \in p.ownedAtas}
     \cup {[address |-> findAssociatedTokenAddress(o, PoolMintOf(1)),
            data |-> <<>>] : o \in p.poolTokenAccounts},
   balances |->
     {[address |-> SourceTokenKey, amount |-> InitialBalance,
       decimals |-> p.decimals]}
     \cup {[address |-> findAssociatedTokenAddress(PoolKeyOf(1),
                                                   Key(p.poolMints[i])),
            amount |-> IF i \in p.zero THEN 0 ELSE 2 + i, decimals |-> 6] :
             i \in DOMAIN p.poolMints},
   supplies |-> {},
   midPrices |-> {[market |-> Key(61), price |-> 2],
                  [market |-> Key(62), price |-> 2],
                  [market |-> Key(63), price |-> 4],
                  [market |-> Key(64), price |-> 3]},
   openOrders |->
     {[market |-> Key(m), owner |-> SourceOwnerKey,
       accounts |-> [j \in 1..p.openOrders[m] |-> Key(100 + 10 * (m - 60) + j)]] :
        m \in VenueMarketIds},
   fill |-> p.fill]

\* a pool of SRM and USDC, an SRM source, every account present
BaseWorld ==
  [poolPresent |-> TRUE, poolMints |-> <<22, 21>>, zero |-> {},
   sourceMint |-> 22, decimals |-> 5, fill |-> 400,
   ownedAtas |-> PoolMintIds, poolTokenAccounts |-> PoolTokenOwners,
   openOrders |-> [m \in VenueMarketIds |-> 1]]

\* the worlds that vary the source account and the outcome of the conversion
ConversionWorlds ==
  {[BaseWorld EXCEPT !.sourceMint = sm, !.decimals = dec, !.fill = f,
                     !.ownedAtas = PoolMintIds \ no,
                     !.openOrders = [m \in VenueMarketIds |-> oo]] :
     <<sm, dec, f, no, oo>> \in
       SourceMintIds \X DecimalsChoices \X FillChoices \X {{}, {21}}
         \X (0..MaxOpenOrders)}

\* the worlds that vary the composition of the pool, with a USDC source
CompositionWorlds ==
  {[BaseWorld EXCEPT !.sourceMint = 21, !.poolMints = pm, !.zero = z,
                     !.openOrders = oo] :
     <<pm, z, oo>> \in
       {<<q, y, n>> \in NoRepSeqs(PoolMintIds, MaxAssets)
                          \X (SUBSET (1..MaxAssets))
                          \X [VenueMarketIds -> 0..MaxOpenOrders] :
          y \subseteq DOMAIN q}}

\* the worlds that vary which accounts of the depositor and of the fee
\* receivers exist, with a USDC source
AccountWorlds ==
  {[BaseWorld EXCEPT !.sourceMint = 21, !.poolMints = pm, !.ownedAtas = at,
                     !.poolTokenAccounts = pt] :
     <<pm, at, pt>> \in
       {<<22, 21>>, <<22, 23>>} \X (SUBSET {21, 22, 23})
         \X (SUBSET PoolTokenOwners)}

DepositWorlds ==
  ConversionWorlds \cup CompositionWorlds \cup AccountWorlds
    \cup {[BaseWorld EXCEPT !.poolPresent = FALSE]}

InitDeposit ==
  /\ \E p \in DepositWorlds : chain = DepositWorld(p)
  /\ input = [sourceOwner |-> SourceOwnerKey, sourceTokenKey |-> SourceTokenKey,
              user_amount |-> UserAmount, poolSeed |-> Key(1),
              payer |-> PayerKey]
  /\ pc = "resolvePool"
  /\ local = DepositLocals
  /\ outcome = Pending
  /\ log = <<>>

NextDeposit ==
  \/ DepositResolvePool
  \/ DepositResolveSource
  \/ DepositSellOrder
  \/ DepositEnsureUsdcAccount
  \/ DepositConvertWait
  \/ DepositSettleConvert
  \/ DepositVerifyConversion
  \/ DepositProvision
  \/ DepositReadPoolBalances
  \/ DepositBuyOrder
  \/ DepositRebalanceWait
  \/ DepositSettleRebalance
  \/ DepositExecute

SpecDeposit == InitDeposit /\ [][NextDeposit]_vars

(***************************************************************************)
(* Properties of the deposit workflow.                                     *)
(***************************************************************************)
\* the balance the source token account holds now; it is written only by the
\* venue, when the sell order is taken
SourceBalanceNow ==
  LET a == CHOOSE b \in chain.accounts : b.address = input.sourceTokenKey
  IN AccountLayout_decode(a.data).amount

SourceAccountExists ==
  \E b \in chain.accounts : b.address = input.sourceTokenKey

ConversionNotMatched ==
  outcome.status = "error"
    /\ outcome.error = "Conversion to USDC Order was not matched."

\* the verification step has run on a conversion that took place: the call
\* either went on to provisioning or failed the verification
ConversionVerified ==
  /\ local.marketUSDC # None
  /\ SourceAccountExists
  /\ pc \notin {"resolvePool", "resolveSource", "convert", "usdcAccount",
                "sleepConvert", "settleConvert", "verify"}
  /\ outcome.status = "error" => ConversionNotMatched

\* C1: after the conversion the workflow fails with ConversionNotMatched
\* exactly when the source balance decreased by less than the intended
\* amount, and proceeds when it decreased by at least the amount.
C1_FailsIffShortfall ==
  ConversionVerified =>
    (ConversionNotMatched
       <=> local.tokenInitialBalance - SourceBalanceNow < local.amount)

NoDepositSubmitted ==
  \A k \in DOMAIN log :
    log[k].call = "sendTransaction" =>
      \A j \in DOMAIN log[k].instructions :
        log[k].instructions[j].instruction # "deposit"

\* C10: once singleTokenDeposit has raised an error it issues no further
\* request (no order, no settlement, no transaction, no compensating action),
\* changes nothing on the chain, and has not submitted the deposit.
C10_FailureAborts ==
  /\ [](outcome.status = "error" => NoDepositSubmitted)
  /\ [][outcome.status = "error" => (log' = log /\ chain' = chain)]_vars

\* C10 witness: the verification failed after the sell order had been placed
\* and settled
C10_Witness ==
  /\ ConversionNotMatched
  /\ \E k \in DOMAIN log : log[k].call = "placeOrder"
  /\ \E k \in DOMAIN log : log[k].call = "settleFunds"
  /\ pc = "done"

\* the requests that settle standing orders: the discovery of the open orders
\* accounts and the settlement of each
IsSettleStep(k) ==
  log[k].call \in {"findOpenOrdersAccountsForOwner", "settleFunds"}

IsWait(k) == log[k].call = "sleep" /\ log[k].ms = SettlementDelay

\* the order placed last before request k
LastOrderBefore(k) ==
  {i \in 1..(k - 1) :
     /\ log[i].call = "placeOrder"
     /\ \A m \in (i + 1)..(k - 1) : log[m].call # "placeOrder"}

\* C11: every settlement of singleTokenDeposit comes after the placement of
\* the order it settles and after the settlement delay that follows that
\* placement: no settle before the sell order and its wait, and no settle of
\* the rebalance before all buy orders are placed and the wait has elapsed.
C11_SettleAfterOrderAndWait ==
  \A k \in DOMAIN log :
    IsSettleStep(k) =>
      \E i \in LastOrderBefore(k) :
        /\ \E j \in (i + 1)..(k - 1) : IsWait(j)
        /\ \A m \in (k + 1)..Len(log) :
             log[m].call = "placeOrder" => log[m].side # log[i].side

\* C11 witness: a run that settled the conversion, then placed a buy order,
\* waited and settled the rebalance
C11_Witness ==
  \E k1, k2, k3 \in DOMAIN log :
    /\ k1 < k2 /\ k2 < k3
    /\ log[k1].call = "settleFunds"
    /\ log[k1].baseWallet = input.sourceTokenKey
    /\ log[k2].call = "placeOrder" /\ log[k2].side = "buy"
    /\ log[k3].call = "settleFunds"

\* the phase of the workflow a position belongs to
PhaseOf(p) ==
  CASE p \in {"resolvePool", "resolveSource"} -> 1
    [] p \in {"convert", "usdcAccount", "sleepConvert", "settleConvert"} -> 2
    [] p = "verify" -> 3
    [] p = "provision" -> 4
    [] p \in {"poolBalances", "rebalance", "settleRebalance"} -> 5
    [] p = "done" -> 6

\* the positions in the log of the transactions carrying a deposit instruction
DepositSubmissions ==
  {k \in DOMAIN log :
     /\ log[k].call = "sendTransaction"
     /\ \E j \in DOMAIN log[k].instructions :
          log[k].instructions[j].instruction = "deposit"}

\* the asset positions whose market the settle loop has to settle
MarketsToSettle ==
  {i \in 1..Len(local.poolAssets) :
     i \in DOMAIN local.poolAssetMarkets /\ local.poolAssetMarkets[i] # None}

\* the settlements of the rebalance: the discoveries of open orders accounts
\* issued after the last wait
RebalanceSettlements ==
  {k \in DOMAIN log :
     /\ log[k].call = "findOpenOrdersAccountsForOwner"
     /\ \E j \in 1..(k - 1) : IsWait(j) /\ \A m \in (j + 1)..Len(log) : ~IsWait(m)
     /\ \E j \in 1..(k - 1) : log[j].call = "placeOrder" /\ log[j].side = "buy"}

\* C12: singleTokenDeposit moves through its phases in the order resolve,
\* convert, verify, provision, rebalance, deposit and never returns to an
\* earlier one; a successful run has submitted the deposit exactly once, as
\* its last request, after every rebalance settlement.
C12_LinearPhases ==
  /\ [][PhaseOf(pc') >= PhaseOf(pc)]_vars
  /\ [](outcome.status = "ok" =>
          /\ Cardinality(DepositSubmissions) = 1
          /\ DepositSubmissions = {Len(log)}
          /\ Cardinality(RebalanceSettlements) = Cardinality(MarketsToSettle)
          /\ \A k \in DOMAIN log : IsSettleStep(k) => k < Len(log))

\* C12 witness: a successful run that went through the conversion and
\* settled a buy order before the deposit
C12_Witness ==
  /\ outcome.status = "ok"
  /\ local.marketUSDC # None
  /\ RebalanceSettlements # {}
  /\ \E k \in DOMAIN log : log[k].call = "settleFunds" /\ k > 1
       /\ \E j \in 1..(k - 1) : log[j].call = "placeOrder" /\ log[j].side = "buy"

\* the pool-token amount carried by the submitted deposit instruction
ClaimedPoolTokenAmount ==
  LET tx == log[Len(log)].instructions
  IN tx[Len(tx)].poolTokenAmount.poolTokenAmount

\* the asset positions whose leg contributes a computed ratio: the USDC leg,
\* and every other asset the pool holds a nonzero balance of
ContributingLegs ==
  {i \in 1..Len(local.poolAssets) :
     tokenName(local.poolAssets[i].mintAddress) = Some("USDC")
       \/ local.poolAssetAmounts[i] # 0}

\* the ratio leg i contributes (lines 460-466 and 486-489)
LegRatio(i) ==
  IF tokenName(local.poolAssets[i].mintAddress) = Some("USDC")
  THEN Ratio(1000000 * local.midPriceUSDC * local.amount,
             local.totalPoolAssetAmount)
  ELSE LET assetMidPrice ==
             getMidPrice(chain,
               marketInfoOf(concatUSDC(
                 tokenName(local.poolAssets[i].mintAddress)[1]))[1].address)[2]
       IN Ratio(local.midPriceUSDC * local.amount,
                assetMidPrice * local.totalPoolAssetAmount)

\* C13: the pool-token amount claimed by the deposit instruction never
\* exceeds the ratio of any contributing asset leg (it is at most the ratio
\* of the least-filled leg).
C13_ClaimWithinEveryLeg ==
  outcome.status = "ok" =>
    \A i \in ContributingLegs : RatioGeq(LegRatio(i), ClaimedPoolTokenAmount)

(***************************************************************************)
(* Properties of fetchPoolBalances.                                        *)
(***************************************************************************)
\* where the asset records start in the raw account, and how many there are
RawAssetsAt == PoolHeaderLEN + RawMarketCount * PUBKEY_LENGTH

RawAssetCount ==
  IF Len(CalledPoolData) <= RawAssetsAt THEN 0
  ELSE (Len(CalledPoolData) - RawAssetsAt) \div PoolAssetLEN

\* the mint of the i-th asset record of the raw account
RawAssetMint(i) ==
  SubSeq(CalledPoolData, RawAssetsAt + PoolAssetLEN * (i - 1) + 1,
         RawAssetsAt + PoolAssetLEN * (i - 1) + PUBKEY_LENGTH)

\* the pool's holding address for a mint, and the pool-token mint address
HoldingAddress(mint) == <<2>> \o CalledPoolAddress \o mint

CalledPoolMint == <<1>> \o BONFIDABOT_PROGRAM_ID \o input.poolSeed \o <<1>>

BalanceAnswered(address) == \E b \in chain.balances : b.address = address

\* the pool account decodes: a whole header and whole asset records
PoolDecodes ==
  /\ PoolAccountExists
  /\ Len(CalledPoolData) >= PoolHeaderLEN
  /\ Len(CalledPoolData) > RawAssetsAt =>
       (Len(CalledPoolData) - RawAssetsAt) % PoolAssetLEN = 0

\* C14: fetchPoolBalances returns one balance per asset record of the pool
\* account, in record order, each paired with the record's mint and holding
\* the live balance of the pool's account for it; when a balance query or the
\* supply query fails the call fails and returns nothing.
C14_BalancesPerAssetOrNothing ==
  (pc = "done" /\ local.op = "fetchPoolBalances" /\ PoolDecodes) =>
     IF /\ \A i \in 1..RawAssetCount :
             BalanceAnswered(HoldingAddress(RawAssetMint(i)))
        /\ \E s \in chain.supplies : s.address = CalledPoolMint
     THEN /\ outcome.status = "ok"
          /\ Len(outcome.value[1][2]) = RawAssetCount
          /\ \A i \in 1..RawAssetCount :
               /\ outcome.value[1][2][i].mint = toBase58(RawAssetMint(i))
               /\ \E b \in chain.balances :
                    /\ b.address = HoldingAddress(RawAssetMint(i))
                    /\ outcome.value[1][2][i].tokenAmount = b.amount
     ELSE /\ outcome.status = "error"
          /\ outcome.value = None

\* C14 witness: the balance of the first of two assets was read and the
\* query for the second failed
C14_Witness ==
  /\ pc = "done" /\ local.op = "fetchPoolBalances" /\ PoolDecodes
  /\ RawAssetCount = 2
  /\ BalanceAnswered(HoldingAddress(RawAssetMint(1)))
  /\ ~BalanceAnswered(HoldingAddress(RawAssetMint(2)))
  /\ outcome.status = "error"
  /\ Len(log) = 3

(***************************************************************************)
(* getPoolTokenMintFromSeed, and the specification of address derivation:  *)
(* the four operations that take a pool seed and getPoolTokenMintFromSeed, *)
(* called with the same seed on the same chain in any order, each          *)
(* recording the pool account it read and the pool-token mint it used.     *)
(***************************************************************************)
\* mutant: the mint is derived from the seed alone
getPoolTokenMintFromSeed_seedOnly(poolSeed) ==
  createProgramAddress(<<poolSeed>>, BONFIDABOT_PROGRAM_ID)

\* lines 640-650
getPoolTokenMintFromSeed(poolSeed) ==
  LET poolMintKey ==
        createProgramAddress(<<poolSeed, array_one>>, BONFIDABOT_PROGRAM_ID)
  IN poolMintKey

\* the addresses of the requests of one kind among the requests a call issued
RequestedAddresses(rpc, call) ==
  {rpc[k].address : k \in {j \in DOMAIN rpc : rpc[j].call = call}}

\* a USDC source and a pool of SRM and USDC with every account present; the
\* same with a pool of BTC alone; and a chain without the pool
AddressWorlds ==
  {BaseWorld, [BaseWorld EXCEPT !.sourceMint = 21],
   [BaseWorld EXCEPT !.sourceMint = 21, !.poolMints = <<23>>],
   [BaseWorld EXCEPT !.poolPresent = FALSE]}

InitAddresses ==
  /\ \E p \in AddressWorlds, loadable \in SUBSET VenueMarketIds,
        minted \in BOOLEAN :
       chain = [markets |-> {Key(m) : m \in loadable},
                supplies |-> IF minted
                             THEN {[address |-> PoolMintOf(1), amount |-> 5000]}
                             ELSE {}]
                 @@ DepositWorld(p)
  /\ \E seedId \in SeedIds :
       input = [sourceOwner |-> SourceOwnerKey,
                sourceTokenKey |-> SourceTokenKey, user_amount |-> UserAmount,
                poolSeed |-> Key(seedId), payer |-> PayerKey]
  /\ pc = "resolvePool"
  /\ local = [observed |-> {}] @@ DepositLocals
  /\ outcome = Pending
  /\ log = <<>>

\* an operation other than the deposit is called at most once
NotObserved(op) == \A o \in local.observed : o.op # op

\* what a call addressed is recorded: the pool accounts it read and the
\* pool-token mints it used
Observed(op, pools, mints) ==
  [local EXCEPT !.observed =
     @ \cup {[op |-> op, pools |-> pools, mints |-> mints]}]

ObserveSettlePool ==
  /\ NotObserved("settlePool")
  /\ LET r == settlePool(chain, input.poolSeed)
     IN local' = Observed("settlePool",
                          RequestedAddresses(r.rpc, "getAccountInfo"), {})
  /\ UNCHANGED <<chain, input, pc, outcome, log>>

ObserveFetchPoolInfo ==
  /\ NotObserved("fetchPoolInfo")
  /\ LET r == fetchPoolInfo(chain, input.poolSeed)
     IN local' = Observed("fetchPoolInfo",
                          RequestedAddresses(r.rpc, "getAccountInfo"),
                          IF r.status = "ok" THEN {r.value[1].mintKey} ELSE {})
  /\ UNCHANGED <<chain, input, pc, outcome, log>>

ObserveFetchPoolBalances ==
  /\ NotObserved("fetchPoolBalances")
  /\ LET r == fetchPoolBalances(chain, input.poolSeed)
     IN local' = Observed("fetchPoolBalances",
                          RequestedAddresses(r.rpc, "getAccountInfo"),
                          RequestedAddresses(r.rpc, "getTokenSupply"))
  /\ UNCHANGED <<chain, input, pc, outcome, log>>

ObserveGetPoolTokenMintFromSeed ==
  /\ NotObserved("getPoolTokenMintFromSeed")
  /\ local' = Observed("getPoolTokenMintFromSeed", {},
                       {getPoolTokenMintFromSeed(input.poolSeed)})
  /\ UNCHANGED <<chain, input, pc, outcome, log>>

NextAddresses ==
  \/ ObserveSettlePool
  \/ ObserveFetchPoolInfo
  \/ ObserveFetchPoolBalances
  \/ ObserveGetPoolTokenMintFromSeed
  \/ NextDeposit

SpecAddresses == InitAddresses /\ [][NextAddresses]_vars

\* the pool account singleTokenDeposit has read so far: the first request of
\* the call
DepositPoolRead == IF log = <<>> THEN {} ELSE {log[1].address}

\* the pool-token mint singleTokenDeposit has used so far: the mint of the
\* submitted deposit instruction and of the accounts created with it
DepositMintUsed ==
  UNION {{log[k].instructions[j].poolMintKey :
            j \in {i \in DOMAIN log[k].instructions :
                     log[k].instructions[i].instruction = "deposit"}}
         \cup {log[k].instructions[j].mint :
                 j \in {i \in DOMAIN log[k].instructions :
                          /\ log[k].instructions[i].instruction
                               = "createAssociatedTokenAccount"
                          /\ k = Len(log) /\ outcome.status = "ok"}} :
         k \in {m \in DOMAIN log : log[m].call = "sendTransaction"}}

\* C16: for one seed, settlePool, fetchPoolInfo, fetchPoolBalances and
\* singleTokenDeposit read the pool account at the same address, fixed by the
\* seed and the program identity alone; and the mintKey of fetchPoolInfo, the
\* result of getPoolTokenMintFromSeed and the mints used by fetchPoolBalances
\* and singleTokenDeposit are one address.
C16_OneAddressPerSeed ==
  LET pools == DepositPoolRead \cup UNION {o.pools : o \in local.observed}
      mints == DepositMintUsed \cup UNION {o.mints : o \in local.observed}
  IN /\ pools \subseteq {CalledPoolAddress}
     /\ Cardinality(mints) <= 1
     /\ \A o \in local.observed :
          o.op # "getPoolTokenMintFromSeed" => o.pools = {CalledPoolAddress}

\* C16 witness: all five operations have run on a chain holding the pool, the
\* deposit has been submitted, and each of the four that use the mint did
C16_Witness ==
  /\ outcome.status = "ok"
  /\ Cardinality(local.observed) = 4
  /\ DepositMintUsed # {}
  /\ \A o \in local.observed : o.op # "settlePool" => o.mints # {}

(***************************************************************************)
(* Properties of the rebalance step of the deposit workflow.               *)
(***************************************************************************)
\* the buy orders placed so far, in the order they were placed
BuyOrders ==
  SelectSeq(log, LAMBDA r : r.call = "placeOrder" /\ r.side = "buy")

IsSettlementAsset(i) ==
  local.poolAssets[i].mintAddress = TOKEN_MINTS[1].address

\* the asset positions the buy loop has gone through: those before the
\* position it is at or failed at, all of them once it has ended
AssetsVisited ==
  IF pc = "rebalance" \/ outcome.status = "error" THEN 1..local.i
  ELSE IF pc = "settleRebalance" \/ outcome.status = "ok"
  THEN 1..Len(local.poolAssets)
  ELSE {}

\* the visited positions that have to be bought: not the settlement asset,
\* and held by the pool
AssetsToBuy ==
  {i \in AssetsVisited :
     ~IsSettlementAsset(i) /\ local.poolAssetAmounts[i] # 0}

\* the live market of the pair of asset i with the settlement asset
LiveMarketsOf(i) ==
  {MARKETS[m].address : m \in
     {k \in DOMAIN MARKETS :
        /\ ~MARKETS[k].deprecated
        /\ \E t \in DOMAIN TOKEN_MINTS :
             /\ TOKEN_MINTS[t].address = local.poolAssets[i].mintAddress
             /\ MARKETS[k].name = <<TOKEN_MINTS[t].name, "/USDC">>}}

\* the buy loop has failed: the pool balances were read and the call ended
\* with an error
BuyLoopFailed ==
  /\ pc = "done" /\ outcome.status = "error"
  /\ local.poolAssets # <<>>
  /\ Len(local.poolAssetAmounts) = Len(local.poolAssets)

\* C17: the rebalance step places one immediate-or-cancel buy order for each
\* pool asset that is not the settlement asset and that the pool holds a
\* nonzero balance of, in asset order and on that asset's market, and no other
\* buy order; an asset with zero pool balance gets none, and the loop fails
\* only on an asset that is not listed or whose market is missing or
\* deprecated, never because a balance is zero.
C17_BuyOrdersForHeldAssets ==
  /\ Len(BuyOrders) = Cardinality(AssetsToBuy)
  /\ \A i \in AssetsToBuy :
       LET o == BuyOrders[Cardinality({j \in AssetsToBuy : j <= i})]
       IN /\ o.market \in LiveMarketsOf(i)
          /\ o.orderType = "ioc"
          /\ o.owner = input.sourceOwner
  /\ \A k, m \in DOMAIN BuyOrders : k # m => BuyOrders[k].market # BuyOrders[m].market
  /\ BuyLoopFailed =>
       \E i \in DOMAIN local.poolAssets :
         ~IsSettlementAsset(i) /\ LiveMarketsOf(i) = {}

\* C17 witness: in a pool of SRM with zero balance and BTC, the deposit went
\* through with a single buy order, on the BTC market
C17_Witness ==
  /\ outcome.status = "ok"
  /\ Len(local.poolAssets) = 2
  /\ local.poolAssets[1].mintAddress = Key(22)
  /\ local.poolAssetAmounts[1] = 0
  /\ local.poolAssets[2].mintAddress = Key(23)
  /\ Len(BuyOrders) = 1
  /\ BuyOrders[1].market = Key(63)

\* the settlements of the rebalance step: those issued after a buy order
RebalanceSettles ==
  {k \in DOMAIN log :
     /\ log[k].call = "settleFunds"
     /\ \E j \in 1..(k - 1) : log[j].call = "placeOrder" /\ log[j].side = "buy"}

\* the markets whose open orders the rebalance step has looked up
MarketsSettled ==
  {log[k].address : k \in {m \in DOMAIN log :
     /\ log[m].call = "findOpenOrdersAccountsForOwner"
     /\ \E j \in 1..(m - 1) : log[j].call = "placeOrder" /\ log[j].side = "buy"}}

\* C18: every market a buy order was placed on has its standing orders
\* settled before the deposit, and each settlement of the rebalance goes into
\* the depositor's associated account of the base asset of the settled
\* market: the market settled with asset account i is the market of asset i.
C18_SettledIntoOwnAsset ==
  /\ outcome.status = "ok" =>
       \A k \in DOMAIN BuyOrders : BuyOrders[k].market \in MarketsSettled
  /\ \A k \in RebalanceSettles :
       \E i \in DOMAIN local.poolAssets :
         /\ log[k].market \in LiveMarketsOf(i)
         /\ log[k].baseWallet
              = findAssociatedTokenAddress(input.sourceOwner,
                                           local.poolAssets[i].mintAddress)

\* the source account holds the settlement asset and the workflow has
\* inspected it
SourceIsSettlementAsset ==
  /\ SourceAccountExists
  /\ AccountLayout_decode(
       (CHOOSE b \in chain.accounts : b.address = input.sourceTokenKey).data).mint
       = TOKEN_MINTS[1].address
  /\ local.tokenSymbol = "USDC"

\* C19: when the source token is the settlement asset the conversion is
\* skipped: no sell order, no wait and no settle before the rebalance, the
\* source account serves as the settlement-asset account (it pays the buy
\* orders and receives their settlements), and the verification passes on to
\* provisioning without ConversionNotMatched.
C19_SettlementSourceSkipsConversion ==
  /\ [](SourceIsSettlementAsset =>
          /\ pc \notin {"convert", "usdcAccount", "sleepConvert", "settleConvert"}
          /\ local.marketUSDC = None
          /\ \A k \in DOMAIN log :
               /\ log[k].call = "placeOrder" =>
                    log[k].side = "buy" /\ log[k].payer = input.sourceTokenKey
               /\ (IsSettleStep(k) \/ IsWait(k)) =>
                    pc \in {"settleRebalance", "done"}
               /\ IsWait(k) => \A m \in DOMAIN log : IsWait(m) => m = k
               /\ log[k].call = "settleFunds" =>
                    log[k].quoteWallet = input.sourceTokenKey
          /\ local.sourceUSDCKey = input.sourceTokenKey
          /\ ~ConversionNotMatched)
  /\ [][(SourceIsSettlementAsset /\ pc = "verify") => pc' = "provision"]_vars

\* C19 witness: a settlement-asset source went through to the deposit, the
\* source account paying a buy order
C19_Witness ==
  /\ SourceIsSettlementAsset
  /\ outcome.status = "ok"
  /\ Len(BuyOrders) > 0
  /\ BuyOrders[1].payer = input.sourceTokenKey

(***************************************************************************)
(* Properties of the provisioning step of the deposit workflow.            *)
(***************************************************************************)
\* the depositor's associated account of pool asset i
DepositorAccountOf(i) ==
  <<2>> \o input.sourceOwner \o local.poolAssets[i].mintAddress

\* the pool asset positions for which the depositor holds no account
MissingAssetAccounts ==
  {i \in DOMAIN local.poolAssets :
     \A a \in chain.accounts : a.address # DepositorAccountOf(i)}

\* the step taken adds requests to the log: the transactions among them
SubmittedByStep ==
  SelectSeq(SubSeq(log', Len(log) + 1, Len(log')),
            LAMBDA r : r.call = "sendTransaction")

\* C20: the provisioning step submits at most one transaction, none when the
\* depositor holds an account for every pool asset, and otherwise one made of
\* exactly one create instruction per pool asset whose account is missing, in
\* pool-asset order; and the depositor and pool asset-account lists of the
\* deposit instruction have one entry per pool asset, in pool-asset order.
C20_ProvisionOnceInAssetOrder ==
  /\ [][pc = "provision" =>
          /\ Len(SubmittedByStep) <= 1
          /\ (MissingAssetAccounts = {}) <=> (SubmittedByStep = <<>>)
          /\ SubmittedByStep # <<>> =>
               LET tx == SubmittedByStep[1].instructions
               IN /\ Len(tx) = Cardinality(MissingAssetAccounts)
                  /\ \A i \in MissingAssetAccounts :
                       LET c == tx[Cardinality({j \in MissingAssetAccounts :
                                                  j <= i})]
                       IN /\ c.instruction = "createAssociatedTokenAccount"
                          /\ c.owner = input.sourceOwner
                          /\ c.mint = local.poolAssets[i].mintAddress
                          /\ c.address = DepositorAccountOf(i)]_vars
  /\ [](outcome.status = "ok" =>
          LET tx == log[Len(log)].instructions
              d == tx[Len(tx)]
          IN /\ Len(d.sourceAssetKeys) = Len(local.poolAssets)
             /\ Len(d.poolAssetKeys) = Len(local.poolAssets)
             /\ \A i \in DOMAIN local.poolAssets :
                  /\ d.sourceAssetKeys[i] = DepositorAccountOf(i)
                  /\ d.poolAssetKeys[i]
                       = <<2>> \o CalledPoolAddress
                           \o local.poolAssets[i].mintAddress)

\* C20 witness: in a pool of SRM and BTC the depositor held an SRM account
\* only; one transaction created the BTC account and the deposit went through
C20_Witness ==
  /\ outcome.status = "ok"
  /\ Len(local.poolAssets) = 2
  /\ local.poolAssets[2].mintAddress = Key(23)
  /\ \E k \in 1..(Len(log) - 1) :
       /\ log[k].call = "sendTransaction"
       /\ Len(log[k].instructions) = 1
       /\ log[k].instructions[1].instruction = "createAssociatedTokenAccount"
       /\ log[k].instructions[1].mint = Key(23)
       /\ log[k].instructions[1].owner = input.sourceOwner

(***************************************************************************)
(* Properties of the final transaction of the deposit workflow.            *)
(***************************************************************************)
\* the owners of the pool-token accounts the deposit pays into, in the order
\* the workflow looks them up: the depositor, the signal provider named in
\* the pool account, and the two protocol fee recipients
FinalOwners ==
  <<input.sourceOwner, Slice(CalledPoolData, 64, 96),
    BONFIDA_FEE_KEY, BONFIDA_BNB_KEY>>

\* the pool-token account of an owner
PoolTokenAccountOf(owner) == <<2>> \o owner \o CalledPoolMint

\* the positions of FinalOwners whose pool-token account is not on the chain
MissingPoolTokenAccounts ==
  {i \in DOMAIN FinalOwners :
     \A a \in chain.accounts :
       a.address # PoolTokenAccountOf(FinalOwners[i])}

\* C21: the step that ends a successful deposit submits one transaction, as
\* its last request; the transaction holds one create instruction for exactly
\* those pool-token accounts of the depositor, the signal provider and the two
\* protocol fee recipients that did not exist before the step, in that order,
\* followed by one deposit instruction, which is the last instruction and the
\* only deposit instruction; no other transaction of the workflow creates a
\* pool-token account or carries a deposit instruction.
C21_FinalTransaction ==
  /\ [][(pc = "settleRebalance" /\ pc' = "done" /\ outcome'.status = "ok") =>
          /\ Len(SubmittedByStep) = 1
          /\ log'[Len(log')] = SubmittedByStep[1]
          /\ LET tx == SubmittedByStep[1].instructions
             IN /\ Len(tx) = Cardinality(MissingPoolTokenAccounts) + 1
                /\ \A i \in MissingPoolTokenAccounts :
                     LET c == tx[Cardinality({j \in MissingPoolTokenAccounts :
                                                j <= i})]
                     IN /\ c.instruction = "createAssociatedTokenAccount"
                        /\ c.owner = FinalOwners[i]
                        /\ c.mint = CalledPoolMint
                        /\ c.address = PoolTokenAccountOf(FinalOwners[i])
                /\ tx[Len(tx)].instruction = "deposit"
                /\ \A j \in 1..(Len(tx) - 1) : tx[j].instruction # "deposit"]_vars
  /\ [](outcome.status = "ok" =>
          \A k \in 1..(Len(log) - 1) :
            log[k].call = "sendTransaction" =>
              \A j \in DOMAIN log[k].instructions :
                /\ log[k].instructions[j].instruction # "deposit"
                /\ log[k].instructions[j].instruction
                     = "createAssociatedTokenAccount"
                     => log[k].instructions[j].mint # CalledPoolMint)

\* C21 witness: the depositor and the fee recipient held pool-token accounts,
\* the signal provider and the buy-and-burn recipient did not; the deposit
\* went through with a final transaction of their two create instructions
\* followed by the deposit instruction
C21_Witness ==
  /\ outcome.status = "ok"
  /\ LET tx == log[Len(log)].instructions
     IN /\ Len(tx) = 3
        /\ tx[1].instruction = "createAssociatedTokenAccount"
        /\ tx[1].owner = Slice(CalledPoolData, 64, 96)
        /\ tx[2].instruction = "createAssociatedTokenAccount"
        /\ tx[2].owner = BONFIDA_BNB_KEY
        /\ tx[3].instruction = "deposit"

====
